---------------------------- MODULE Spec2Model ----------------------------
(***************************************************************************)
(* A model of the polynomial / basis-function library of Flurry++          *)
(* (src/src/polynomials.cpp).  Every function of the library is a pure     *)
(* function of its arguments; it is modelled as an operator that computes  *)
(* what the C++ computes, and one action per function applies it to        *)
(* arguments drawn from small sets.                                        *)
(*                                                                         *)
(* Numbers.  A C++ double is modelled by the exact real number it stands   *)
(* for:                                                                    *)
(*   - a rational is a pair <<n, d>> in lowest terms with d > 0;           *)
(*     <<1,0>>, <<-1,0>> and <<0,0>> stand for +inf, -inf and NaN, the     *)
(*     results of IEEE division by zero;                                   *)
(*   - a surd is a triple <<n, d, r>> standing for (n/d)*sqrt(r) with r a  *)
(*     square-free positive integer (r = 1 for a rational).                *)
(* A C++ int is a TLA+ integer; the bounds keep every int far from 2^31.   *)
(***************************************************************************)
EXTENDS Integers, Sequences, FiniteSets, TLC

VARIABLES pc, fn, arg, ret, loc, collectives, sendbuf, bnd, fs, errlog

vars == <<pc, fn, arg, ret, loc, collectives, sendbuf, bnd, fs, errlog>>

\* the state of an MPI run of an output function: the position of every rank
\* in the function, the collectives each rank entered, the values each rank
\* contributed to the Allgathers, each rank's boundary counter, the files,
\* and the error columns each rank wrote
outvars == <<loc, collectives, sendbuf, bnd, fs, errlog>>

-----------------------------------------------------------------------------
(* Bounds of the model *)

\* largest truncation order of the 2D bases
MaxOrder == 3
\* largest order handed to compute_eta, VCJH_1d and dVCJH_1d
MaxVcjhOrder == 6
\* largest number of interpolation nodes handed to the Lagrange functions
MaxNodes == 4
\* largest order handed to eval_jacobi and eval_grad_jacobi
MaxJacobiMode == 4
\* largest argument handed to eval_gamma
MaxGammaArg == 10
\* number of nested recursive calls after which the call stack is exhausted
\* (above every order of the model, so that a recursion that meets a base
\* case never gets there)
MaxStack == 12
\* params->nproc is at most MaxRanks
MaxRanks == 2
\* Solver->eles.size() is at most MaxEles
MaxEles == 1
\* Geo->nBounds is at most MaxBounds
MaxBounds == 2
\* params->nFields is at most MaxFields
MaxFields == 2

-----------------------------------------------------------------------------
(* Exact rational arithmetic *)

Abs(x) == IF x < 0 THEN -x ELSE x

\* G(x) and G(x, y) with the arguments evaluated once, before G is applied
\* (in a state predicate TLC evaluates an operator argument anew at each of
\* its uses, which a chain of recursive calls multiplies)
Strict(G(_), x) == CHOOSE r \in {G(v) : v \in {x}} : TRUE
Strict2(G(_, _), x, y) == CHOOSE r \in {G(v, w) : v \in {x}, w \in {y}} : TRUE

RECURSIVE GCD(_, _)
GCD(a, b) == IF b = 0 THEN a ELSE GCD(b, a % b)

RNorm(n, d) ==
  LET g == GCD(Abs(n), Abs(d))
      s == IF d < 0 THEN -1 ELSE 1
  IN  IF d = 0 THEN <<(IF n > 0 THEN 1 ELSE IF n < 0 THEN -1 ELSE 0), 0>>
      ELSE <<(s * n) \div g, (s * d) \div g>>

RInt(k) == <<k, 1>>
Zero == <<0, 1>>
One == <<1, 1>>
Half == <<1, 2>>

RIsFinite(a) == a[2] # 0

RNeg(a) == <<-a[1], a[2]>>

RAdd(a, b) ==
  LET g == GCD(a[2], b[2])
  IN  RNorm(a[1] * (b[2] \div g) + b[1] * (a[2] \div g), (a[2] \div g) * b[2])

RSub(a, b) == RAdd(a, RNeg(b))

RMul(a, b) ==
  LET g1 == GCD(Abs(a[1]), b[2])
      g2 == GCD(Abs(b[1]), a[2])
  IN  <<(a[1] \div g1) * (b[1] \div g2), (a[2] \div g2) * (b[2] \div g1)>>

\* IEEE division: x/0 is +inf or -inf by the sign of x, and 0/0 is NaN
RDiv(a, b) ==
  IF b[1] = 0
    THEN <<(IF a[1] > 0 THEN 1 ELSE IF a[1] < 0 THEN -1 ELSE 0), 0>>
    ELSE RMul(a, IF b[1] < 0 THEN <<-b[2], -b[1]>> ELSE <<b[2], b[1]>>)

RLess(a, b) == a[1] * b[2] < b[1] * a[2]

\* pow(base, e) for an integer exponent e
RECURSIVE RPow(_, _)
RPow(a, e) ==
  IF e = 0 THEN One
  ELSE IF e < 0 THEN RDiv(One, RPow(a, -e))
  ELSE RMul(a, RPow(a, e - 1))

\* pow(-1, e) for an integer e
PowMinusOne(e) == IF e % 2 = 0 THEN One ELSE RInt(-1)

-----------------------------------------------------------------------------
(* Surds: (n/d) * sqrt(r) *)

\* the primes whose squares are divided out of a radicand (the radicands of
\* the model are products of integers below 50)
Primes == <<2, 3, 5, 7, 11, 13, 17, 19, 23, 29, 31, 37, 41, 43, 47>>

\* the largest m with m*m dividing x, by trial division by Primes[n..]
RECURSIVE SquarePart(_, _)
SquarePart(x, n) ==
  IF n > Len(Primes) \/ Primes[n] * Primes[n] > x THEN 1
  ELSE IF x % (Primes[n] * Primes[n]) = 0
    THEN Primes[n] * SquarePart(x \div (Primes[n] * Primes[n]), n)
  ELSE SquarePart(x, n + 1)

SRat(q) == <<q[1], q[2], 1>>
SCoef(a) == <<a[1], a[2]>>

\* sqrt of a non-negative rational: sqrt(n/d) = sqrt(n*d)/d
SSqrt(q) ==
  LET mn == SquarePart(q[1], 1)
      md == SquarePart(q[2], 1)
      rn == q[1] \div (mn * mn)
      rd == q[2] \div (md * md)
  IN  IF q[1] = 0 THEN <<0, 1, 1>>
      ELSE LET c == RNorm(mn, md * rd) IN <<c[1], c[2], rn * rd>>

SMul(a, b) ==
  LET g == GCD(a[3], b[3])
      c == RMul(RMul(SCoef(a), SCoef(b)), RInt(g))
  IN  IF c[1] = 0 THEN <<0, 1, 1>>
      ELSE <<c[1], c[2], (a[3] \div g) * (b[3] \div g)>>

\* 1/(c*sqrt(r)) = sqrt(r)/(c*r)
SInv(a) ==
  LET c == RDiv(One, RMul(SCoef(a), RInt(a[3]))) IN <<c[1], c[2], a[3]>>

SNeg(a) == <<-a[1], a[2], a[3]>>

\* the sum of two surds over the same radicand (or with a zero term)
SAdd(a, b) ==
  IF a[1] = 0 THEN b
  ELSE IF b[1] = 0 THEN a
  ELSE LET c == RAdd(SCoef(a), SCoef(b))
       IN  IF c[1] = 0 THEN <<0, 1, 1>> ELSE <<c[1], c[2], a[3]>>

SSub(a, b) == SAdd(a, SNeg(b))

\* whether SAdd(a, b) is exact
SAddable(a, b) == a[1] = 0 \/ b[1] = 0 \/ a[3] = b[3]

-----------------------------------------------------------------------------
(* Results of a call *)

\* FatalError(msg): the evaluation stops with the message and yields no value
FatalError(msg) == [st |-> "fatal", msg |-> msg]

Returns(v) == [st |-> "ok", val |-> v]

\* a recursive function that has returned v; depth is the number of nested
\* recursive calls below the caller's one
ReturnsAtDepth(v, depth) == [st |-> "ok", val |-> v, depth |-> depth]

\* a recursion that meets no base case: the calls nest until the stack is
\* exhausted and the process ends without a value
StackExhausted == [st |-> "crash"]

Max(a, b) == IF a < b THEN b ELSE a

-----------------------------------------------------------------------------
(* Lagrange interpolation polynomials.  x_lag is a sequence; the C++ index i  *)
(* (from 0) is the TLA+ index i + 1.                                         *)

\* x_lag[i]
At(x_lag, i) == x_lag[i + 1]

\* mutant of Lagrange_den: the difference taken the other way round
Lagrange_den_reversed(x_lag, mode, i) == RSub(At(x_lag, i), At(x_lag, mode))

\* the denominator x_lag[mode]-x_lag[i] of one factor of Lagrange
Lagrange_den(x_lag, mode, i) == RSub(At(x_lag, mode), At(x_lag, i))

\* the loop of Lagrange: for (i = 0; i < x_lag.size(); i++)
RECURSIVE Lagrange_loop(_, _, _, _, _)
Lagrange_loop(x_lag, y, mode, i, lag) ==
  IF ~(i < Len(x_lag)) THEN lag
  ELSE Lagrange_loop(x_lag, y, mode, i + 1,
                     IF i # mode
                       THEN RMul(lag, RDiv(RSub(y, At(x_lag, i)), Lagrange_den(x_lag, mode, i)))
                       ELSE lag)

Lagrange(x_lag, y, mode) == Lagrange_loop(x_lag, y, mode, 0, One)

\* the inner loop of dLagrange; nd = <<dLag_num, dLag_den>>
RECURSIVE dLagrange_inner(_, _, _, _, _, _)
dLagrange_inner(x_lag, y, mode, i, j, nd) ==
  IF ~(j < Len(x_lag)) THEN nd
  ELSE LET num == IF j # mode /\ j # i THEN RMul(nd[1], RSub(y, At(x_lag, j))) ELSE nd[1]
           den == IF j # mode THEN RMul(nd[2], RSub(At(x_lag, mode), At(x_lag, j)))
                              ELSE nd[2]
       IN  dLagrange_inner(x_lag, y, mode, i, j + 1, <<num, den>>)

\* the outer loop of dLagrange
RECURSIVE dLagrange_outer(_, _, _, _, _)
dLagrange_outer(x_lag, y, mode, i, dLag) ==
  IF ~(i < Len(x_lag)) THEN dLag
  ELSE IF i # mode
    THEN LET nd == dLagrange_inner(x_lag, y, mode, i, 0, <<One, One>>)
         IN  dLagrange_outer(x_lag, y, mode, i + 1, RAdd(dLag, RDiv(nd[1], nd[2])))
    ELSE dLagrange_outer(x_lag, y, mode, i + 1, dLag)

dLagrange(x_lag, y, mode) == dLagrange_outer(x_lag, y, mode, 0, Zero)

\* mutant of ddLagrange_adds: the term of j == i added as well
ddLagrange_adds_always(i, j) == TRUE

\* the test if(j!=i) under which ddLagrange adds a term
ddLagrange_adds(i, j) == j # i

\* the innermost loop of ddLagrange; nd = <<ddLag_num, ddLag_den>>
RECURSIVE ddLagrange_k(_, _, _, _, _, _, _)
ddLagrange_k(x_lag, y, mode, i, j, k, nd) ==
  IF ~(k < Len(x_lag)) THEN nd
  ELSE IF k # mode
    THEN LET num == IF k # i /\ k # j THEN RMul(nd[1], RSub(y, At(x_lag, k))) ELSE nd[1]
             den == RMul(nd[2], RSub(At(x_lag, mode), At(x_lag, k)))
         IN  ddLagrange_k(x_lag, y, mode, i, j, k + 1, <<num, den>>)
    ELSE ddLagrange_k(x_lag, y, mode, i, j, k + 1, nd)

\* the middle loop of ddLagrange
RECURSIVE ddLagrange_j(_, _, _, _, _, _)
ddLagrange_j(x_lag, y, mode, i, j, ddLag) ==
  IF ~(j < Len(x_lag)) THEN ddLag
  ELSE IF j # mode
    THEN LET nd == ddLagrange_k(x_lag, y, mode, i, j, 0, <<One, One>>)
         IN  ddLagrange_j(x_lag, y, mode, i, j + 1,
                          IF ddLagrange_adds(i, j) THEN RAdd(ddLag, RDiv(nd[1], nd[2]))
                                                   ELSE ddLag)
    ELSE ddLagrange_j(x_lag, y, mode, i, j + 1, ddLag)

\* the outer loop of ddLagrange
RECURSIVE ddLagrange_i(_, _, _, _, _)
ddLagrange_i(x_lag, y, mode, i, ddLag) ==
  IF ~(i < Len(x_lag)) THEN ddLag
  ELSE IF i # mode
    THEN ddLagrange_i(x_lag, y, mode, i + 1, ddLagrange_j(x_lag, y, mode, i, 0, ddLag))
    ELSE ddLagrange_i(x_lag, y, mode, i + 1, ddLag)

ddLagrange(x_lag, y, mode) == ddLagrange_i(x_lag, y, mode, 0, Zero)

-----------------------------------------------------------------------------
(* Legendre polynomials *)

\* mutant of Legendre: the three-term recursion dropped
Legendre_noRecursion(in_r, in_mode) ==
  IF in_mode < 0 THEN Zero ELSE IF in_mode = 0 THEN One ELSE in_r

RECURSIVE Legendre(_, _)
Legendre(in_r, in_mode) ==
  IF in_mode < 0 THEN Zero
  ELSE IF in_mode = 0 THEN One
  ELSE IF in_mode = 1 THEN in_r
  ELSE LET combine(Pm1, Pm2) ==
             RDiv(RSub(RMul(RMul(RInt(2 * in_mode - 1), in_r), Pm1),
                       RMul(RInt(in_mode - 1), Pm2)),
                  RInt(in_mode))
       IN  Strict2(combine, Legendre(in_r, in_mode - 1), Legendre(in_r, in_mode - 2))

\* the deepest nesting the recursion of Legendre reaches from a call at
\* nesting d (the second recursive call is made only after the first returned)
RECURSIVE Legendre_frames(_, _)
Legendre_frames(in_mode, d) ==
  IF d > MaxStack THEN d
  ELSE IF in_mode < 0 \/ in_mode = 0 \/ in_mode = 1 THEN d
  ELSE LET first == Legendre_frames(in_mode - 1, d + 1)
       IN  IF first > MaxStack THEN first
           ELSE Max(first, Legendre_frames(in_mode - 2, d + 1))

\* mutant of dLegendre: the closed forms of the endpoints lost
dLegendre_interiorOnly(in_r, in_mode) ==
  IF in_mode = 0 THEN Zero
  ELSE IF RLess(RInt(-1), in_r) /\ RLess(in_r, One)
    THEN RDiv(RMul(RInt(in_mode),
                   RSub(RMul(in_r, Legendre(in_r, in_mode)), Legendre(in_r, in_mode - 1))),
              RSub(RMul(in_r, in_r), One))
  ELSE Zero

\* mutant of dLegendre: the quotient formula used outside the interval as well
dLegendre_noIntervalTest(in_r, in_mode) ==
  IF in_mode = 0 THEN Zero
  ELSE IF in_r = RInt(-1)
    THEN RMul(RMul(PowMinusOne(in_mode - 1), Half), RInt(in_mode * (in_mode + 1)))
  ELSE IF in_r = One
    THEN RMul(Half, RInt(in_mode * (in_mode + 1)))
  ELSE RDiv(RMul(RInt(in_mode),
                 RSub(RMul(in_r, Legendre(in_r, in_mode)), Legendre(in_r, in_mode - 1))),
            RSub(RMul(in_r, in_r), One))

dLegendre(in_r, in_mode) ==
  IF in_mode = 0 THEN Zero
  ELSE IF RLess(RInt(-1), in_r) /\ RLess(in_r, One)
    THEN RDiv(RMul(RInt(in_mode),
                   RSub(RMul(in_r, Legendre(in_r, in_mode)), Legendre(in_r, in_mode - 1))),
              RSub(RMul(in_r, in_r), One))
  ELSE IF in_r = RInt(-1)
    THEN RMul(RMul(PowMinusOne(in_mode - 1), Half), RInt(in_mode * (in_mode + 1)))
  ELSE IF in_r = One
    THEN RMul(Half, RInt(in_mode * (in_mode + 1)))
  ELSE Zero

-----------------------------------------------------------------------------
(* Gamma function and factorial *)

\* the loop of eval_gamma: for (i = 0; i < in_n-2; i++) gamma_val *= in_n-2-i
RECURSIVE eval_gamma_loop(_, _, _)
eval_gamma_loop(in_n, i, gamma_val) ==
  IF i < in_n - 2
    THEN eval_gamma_loop(in_n, i + 1, gamma_val * (in_n - 2 - i))
    ELSE gamma_val

\* mutant of eval_gamma: the product started at in_n instead of in_n-1
eval_gamma_fromN(in_n) ==
  IF in_n = 1 THEN 1 ELSE eval_gamma_loop(in_n, 0, in_n)

eval_gamma(in_n) ==
  IF in_n = 1 THEN 1 ELSE eval_gamma_loop(in_n, 0, in_n - 1)

\* factorial of funcs.hpp: n! for n >= 0
RECURSIVE factorial(_)
factorial(n) == IF n <= 1 THEN 1 ELSE n * factorial(n - 1)

-----------------------------------------------------------------------------
(* VCJH correction functions *)

\* the scheme tags (enum of the solver's input header)
DG == 0
SD == 1
HU == 2
CPLUS == 3

\* mutant of EtaOrderZeroBad: the scheme comparison inverted
EtaOrderZeroBad_inverted(vcjh_scheme, order) == order = 0 /\ vcjh_scheme = DG

\* the P=0 compatibility check of compute_eta
EtaOrderZeroBad(vcjh_scheme, order) == order = 0 /\ vcjh_scheme # DG

\* mutant of CPlusTabulated: the first row of the table lost
CPlusTabulated_from3(order) == order \in {3, 4, 5}

\* the orders the C_plus table of compute_eta holds a constant for
CPlusTabulated(order) == order \in {2, 3, 4, 5}

\* the tabulated 1D constants c_1d: 0.206, 3.80e-3, 4.67e-5, 4.28e-7
CPlusC1d(order) ==
  CASE order = 2 -> RNorm(206, 1000)
    [] order = 3 -> RNorm(380, 100000)
    [] order = 4 -> RNorm(467, 10000000)
    [] order = 5 -> RNorm(428, 1000000000)

CPlusEta(order) ==
  LET c_1d == CPlusC1d(order)
      ap == RDiv(RMul(RDiv(One, RPow(RInt(2), order)), RInt(factorial(2 * order))),
                 RInt(factorial(order) * factorial(order)))
      fap == RMul(RInt(factorial(order)), ap)
  IN  RMul(RMul(RDiv(RMul(c_1d, RInt(2 * order + 1)), RInt(2)), fap), fap)

\* mutant of compute_eta: the quotients of SD and HU exchanged
compute_eta_swapped(vcjh_scheme, order) ==
  IF EtaOrderZeroBad(vcjh_scheme, order)
    THEN FatalError("ERROR: P=0 only compatible with DG. Set VCJH scheme type to 0!")
  ELSE IF vcjh_scheme = DG THEN Returns(Zero)
  ELSE IF vcjh_scheme = SD THEN Returns(RDiv(RInt(order + 1), RInt(order)))
  ELSE IF vcjh_scheme = HU THEN Returns(RDiv(RInt(order), RInt(order + 1)))
  ELSE IF vcjh_scheme = CPLUS
    THEN IF CPlusTabulated(order)
           THEN Returns(CPlusEta(order))
           ELSE FatalError("C_plus scheme not implemented for this order")
  ELSE FatalError("Invalid VCJH scheme.")

compute_eta(vcjh_scheme, order) ==
  IF EtaOrderZeroBad(vcjh_scheme, order)
    THEN FatalError("ERROR: P=0 only compatible with DG. Set VCJH scheme type to 0!")
  ELSE IF vcjh_scheme = DG THEN Returns(Zero)
  ELSE IF vcjh_scheme = SD THEN Returns(RDiv(RInt(order), RInt(order + 1)))
  ELSE IF vcjh_scheme = HU THEN Returns(RDiv(RInt(order + 1), RInt(order)))
  ELSE IF vcjh_scheme = CPLUS
    THEN IF CPlusTabulated(order)
           THEN Returns(CPlusEta(order))
           ELSE FatalError("C_plus scheme not implemented for this order")
  ELSE FatalError("Invalid VCJH scheme.")

\* mutant of VCJH_left: the sign factor pow(-1,order) lost
VCJH_left_unsigned(order, eta, lm, l0, lp) ==
  RMul(Half, RSub(l0, RDiv(RAdd(RMul(eta, lm), lp), RAdd(One, eta))))

\* the left branch of VCJH_1d as a combination of the three Legendre terms
\* lm = term of order-1, l0 = term of order, lp = term of order+1
VCJH_left(order, eta, lm, l0, lp) ==
  RMul(RDiv(PowMinusOne(order), RInt(2)),
       RSub(l0, RDiv(RAdd(RMul(eta, lm), lp), RAdd(One, eta))))

\* the right (else) branch of VCJH_1d
VCJH_right(order, eta, lm, l0, lp) ==
  RDiv(RMul(Half, RAdd(l0, RAdd(RMul(eta, lm), lp))), RAdd(One, eta))

VCJH_comb(mode, order, eta, lm, l0, lp) ==
  IF mode = 0 THEN VCJH_left(order, eta, lm, l0, lp)
              ELSE VCJH_right(order, eta, lm, l0, lp)

VCJH_1d(xi, mode, order, eta) ==
  VCJH_comb(mode, order, eta,
            Legendre(xi, order - 1), Legendre(xi, order), Legendre(xi, order + 1))

dVCJH_left(in_r, in_order, in_eta) ==
  IF in_order = 0
    THEN RMul(RMul(Half, PowMinusOne(in_order)),
              RSub(dLegendre(in_r, in_order),
                   RDiv(dLegendre(in_r, in_order + 1), RAdd(One, in_eta))))
    ELSE RMul(RMul(Half, PowMinusOne(in_order)),
              RSub(dLegendre(in_r, in_order),
                   RDiv(RAdd(RMul(in_eta, dLegendre(in_r, in_order - 1)),
                             dLegendre(in_r, in_order + 1)),
                        RAdd(One, in_eta))))

dVCJH_right(in_r, in_order, in_eta) ==
  IF in_order = 0
    THEN RMul(Half,
              RAdd(dLegendre(in_r, in_order),
                   RDiv(dLegendre(in_r, in_order + 1), RAdd(One, in_eta))))
    ELSE RMul(Half,
              RAdd(dLegendre(in_r, in_order),
                   RDiv(RAdd(RMul(in_eta, dLegendre(in_r, in_order - 1)),
                             dLegendre(in_r, in_order + 1)),
                        RAdd(One, in_eta))))

\* mutant of dVCJH_1d: every side other than 0 taken as the right one
dVCJH_1d_elseRight(in_r, in_mode, in_order, in_eta) ==
  IF in_mode = 0 THEN dVCJH_left(in_r, in_order, in_eta)
  ELSE dVCJH_right(in_r, in_order, in_eta)

dVCJH_1d(in_r, in_mode, in_order, in_eta) ==
  IF in_mode = 0 THEN dVCJH_left(in_r, in_order, in_eta)
  ELSE IF in_mode = 1 THEN dVCJH_right(in_r, in_order, in_eta)
  ELSE Zero

-----------------------------------------------------------------------------
(* Mode sweeps.  Each function walks the diagonals k, and on a diagonal the  *)
(* j = 0..k with i = k-j, counting the emitted pairs in mode; the pair at    *)
(* which mode == in_mode is the one the value is computed from.  A sweep    *)
(* returns the pair found (hit says whether any was) and the number n of    *)
(* pairs emitted.  Each loop operator first tests st.n < 0, which never     *)
(* holds: the test makes TLC evaluate the loop state at every iteration     *)
(* rather than suspend it until the loop ends.                              *)

NotFound == [hit |-> FALSE, i |-> 0, j |-> 0]
Found(i, j) == [hit |-> TRUE, i |-> i, j |-> j]

\* the state of a sweep: the pair found so far and the count of emitted pairs
SweepState(found, mode) == [hit |-> found.hit, i |-> found.i, j |-> found.j, n |-> mode]
SweepStart == SweepState(NotFound, 0)
FoundOf(st) == [hit |-> st.hit, i |-> st.i, j |-> st.j]

\* mutant of L2D_kEnd: the sweep stops before the diagonal of the order
L2D_kEnd_short(in_basis_order) == in_basis_order

\* the last diagonal (exclusive) of the sweep of Legendre2D_hierarchical
L2D_kEnd(in_basis_order) == in_basis_order * in_basis_order + 1

\* the inner loop: for (j = 0; j < k+1; j++)
RECURSIVE L2D_diagonal(_, _, _, _, _)
L2D_diagonal(in_mode, in_basis_order, k, j, st) ==
  IF st.n < 0 THEN st
  ELSE IF ~(j < k + 1) THEN st
  ELSE LET i == k - j
       IN  IF i <= in_basis_order /\ j <= in_basis_order
             THEN L2D_diagonal(in_mode, in_basis_order, k, j + 1,
                               SweepState(IF st.n = in_mode THEN Found(i, j) ELSE FoundOf(st),
                                          st.n + 1))
             ELSE L2D_diagonal(in_mode, in_basis_order, k, j + 1, st)

\* the outer loop: for (k = 0; k < in_basis_order*in_basis_order+1; k++)
RECURSIVE L2D_sweep(_, _, _, _)
L2D_sweep(in_mode, in_basis_order, k, st) ==
  IF st.n < 0 THEN st
  ELSE IF ~(k < L2D_kEnd(in_basis_order)) THEN st
  ELSE L2D_sweep(in_mode, in_basis_order, k + 1,
                 L2D_diagonal(in_mode, in_basis_order, k, 0, st))

\* mutant of Filter_kEnd: the diagonals of the triangle only
Filter_kEnd_triangle(inBasisOrder) == inBasisOrder + 1

\* the last diagonal (exclusive) of the sweep of exponential_filter
Filter_kEnd(inBasisOrder) == inBasisOrder * inBasisOrder + 1

RECURSIVE Filter_diagonal(_, _, _, _, _)
Filter_diagonal(in_mode, inBasisOrder, k, j, st) ==
  IF st.n < 0 THEN st
  ELSE IF ~(j < k + 1) THEN st
  ELSE LET i == k - j
       IN  IF i <= inBasisOrder /\ j <= inBasisOrder
             THEN Filter_diagonal(in_mode, inBasisOrder, k, j + 1,
                                  SweepState(IF st.n = in_mode THEN Found(i, j)
                                                               ELSE FoundOf(st),
                                             st.n + 1))
             ELSE Filter_diagonal(in_mode, inBasisOrder, k, j + 1, st)

RECURSIVE Filter_sweep(_, _, _, _)
Filter_sweep(in_mode, inBasisOrder, k, st) ==
  IF st.n < 0 THEN st
  ELSE IF ~(k < Filter_kEnd(inBasisOrder)) THEN st
  ELSE Filter_sweep(in_mode, inBasisOrder, k + 1,
                    Filter_diagonal(in_mode, inBasisOrder, k, 0, st))

\* mutant of Dubiner_jEnd: the inner loop stops one short (j < k)
Dubiner_jEnd_short(k) == k

\* the inner bound (exclusive) of the sweep of eval_dubiner_basis_2d
Dubiner_jEnd(k) == k + 1

RECURSIVE Dubiner_diagonal(_, _, _, _)
Dubiner_diagonal(in_mode, k, j, st) ==
  IF st.n < 0 THEN st
  ELSE IF ~(j < Dubiner_jEnd(k)) THEN st
  ELSE Dubiner_diagonal(in_mode, k, j + 1,
                        SweepState(IF st.n = in_mode THEN Found(k - j, j) ELSE FoundOf(st),
                                   st.n + 1))

RECURSIVE Dubiner_sweep(_, _, _, _)
Dubiner_sweep(in_mode, in_basis_order, k, st) ==
  IF st.n < 0 THEN st
  ELSE IF ~(k < in_basis_order + 1) THEN st
  ELSE Dubiner_sweep(in_mode, in_basis_order, k + 1, Dubiner_diagonal(in_mode, k, 0, st))

RECURSIVE DrDubiner_diagonal(_, _, _, _)
DrDubiner_diagonal(in_mode, k, j, st) ==
  IF st.n < 0 THEN st
  ELSE IF ~(j < k + 1) THEN st
  ELSE DrDubiner_diagonal(in_mode, k, j + 1,
                          SweepState(IF st.n = in_mode THEN Found(k - j, j) ELSE FoundOf(st),
                                     st.n + 1))

RECURSIVE DrDubiner_sweep(_, _, _, _)
DrDubiner_sweep(in_mode, in_basis_order, k, st) ==
  IF st.n < 0 THEN st
  ELSE IF ~(k < in_basis_order + 1) THEN st
  ELSE DrDubiner_sweep(in_mode, in_basis_order, k + 1,
                       DrDubiner_diagonal(in_mode, k, 0, st))

RECURSIVE DsDubiner_diagonal(_, _, _, _)
DsDubiner_diagonal(in_mode, k, j, st) ==
  IF st.n < 0 THEN st
  ELSE IF ~(j < k + 1) THEN st
  ELSE DsDubiner_diagonal(in_mode, k, j + 1,
                          SweepState(IF st.n = in_mode THEN Found(k - j, j) ELSE FoundOf(st),
                                     st.n + 1))

RECURSIVE DsDubiner_sweep(_, _, _, _)
DsDubiner_sweep(in_mode, in_basis_order, k, st) ==
  IF st.n < 0 THEN st
  ELSE IF ~(k < in_basis_order + 1) THEN st
  ELSE DsDubiner_sweep(in_mode, in_basis_order, k + 1,
                       DsDubiner_diagonal(in_mode, k, 0, st))

-----------------------------------------------------------------------------
(* Hierarchical Legendre basis and exponential filter *)

\* n_dof of the tensor-product square
SquareDof(order) == (order + 1) * (order + 1)

\* the rejected modes of Legendre2D_hierarchical: !(in_mode < n_dof)
L2D_invalid(in_mode, in_basis_order) == ~(in_mode < SquareDof(in_basis_order))

\* in_loc = <<x, y>>
Legendre2D_hierarchical(in_mode, in_loc, in_basis_order) ==
  IF L2D_invalid(in_mode, in_basis_order)
    THEN FatalError("Invalid mode when evaluating Legendre basis.")
    ELSE LET f == L2D_sweep(in_mode, in_basis_order, 0, SweepStart)
         IN  [st |-> "ok", sel |-> f,
              val |-> IF f.hit THEN RMul(Legendre(in_loc[1], f.i), Legendre(in_loc[2], f.j))
                               ELSE Zero]

\* the rejected modes of exponential_filter: !(in_mode < n_dof)
Filter_invalid(in_mode, inBasisOrder) == ~(in_mode < SquareDof(inBasisOrder))

\* sigma = exp(-pow(eta, exponent)) is returned as the rational pow(eta, exponent)
\* it is the exponential of (field damp); sigma = 0, the initial value, is
\* field zero
exponential_filter(in_mode, inBasisOrder, exponent) ==
  IF Filter_invalid(in_mode, inBasisOrder)
    THEN FatalError("Invalid mode when evaluating exponential filter.")
    ELSE LET f == Filter_sweep(in_mode, inBasisOrder, 0, SweepStart)
             eta == RDiv(RInt(f.i + f.j), RInt(SquareDof(inBasisOrder)))
         IN  [st |-> "ok", sel |-> f, zero |-> ~f.hit,
              damp |-> IF f.hit THEN RPow(eta, exponent) ELSE Zero]

-----------------------------------------------------------------------------
(* Jacobi polynomials (normalized) *)

\* mutant of JacobiNorm0: the power of two with the wrong sign of the exponent
JacobiNorm0_signSlip(in_alpha, in_beta) ==
  LET dtemp_0 == RPow(RInt(2), in_alpha + in_beta + 1)
      dtemp_1 == RInt(eval_gamma(in_alpha + in_beta + 2))
      dtemp_2 == RInt(eval_gamma(in_alpha + 1) * eval_gamma(in_beta + 1))
  IN  SSqrt(RMul(dtemp_0, RDiv(dtemp_1, dtemp_2)))

\* mutant of JacobiNorm0: the argument of the first gamma one too small
JacobiNorm0_gammaShift(in_alpha, in_beta) ==
  LET dtemp_0 == RPow(RInt(2), -in_alpha - in_beta - 1)
      dtemp_1 == RInt(eval_gamma(in_alpha + in_beta + 1))
      dtemp_2 == RInt(eval_gamma(in_alpha + 1) * eval_gamma(in_beta + 1))
  IN  SSqrt(RMul(dtemp_0, RDiv(dtemp_1, dtemp_2)))

\* the common factor sqrt(dtemp_0*(dtemp_1/dtemp_2)) of orders 0 and 1
JacobiNorm0(in_alpha, in_beta) ==
  LET dtemp_0 == RPow(RInt(2), -in_alpha - in_beta - 1)
      dtemp_1 == RInt(eval_gamma(in_alpha + in_beta + 2))
      dtemp_2 == RInt(eval_gamma(in_alpha + 1) * eval_gamma(in_beta + 1))
  IN  SSqrt(RMul(dtemp_0, RDiv(dtemp_1, dtemp_2)))

RECURSIVE eval_jacobi(_, _, _, _)
eval_jacobi(in_r, in_alpha, in_beta, in_mode) ==
  IF in_mode = 0 THEN JacobiNorm0(in_alpha, in_beta)
  ELSE IF in_mode = 1 THEN
    LET dtemp_3 == RInt(in_alpha + in_beta + 3)
        dtemp_4 == RInt((in_alpha + 1) * (in_beta + 1))
        dtemp_5 == RAdd(RMul(in_r, RInt(in_alpha + in_beta + 2)), RInt(in_alpha - in_beta))
    IN  SMul(SMul(SMul(SRat(Half), JacobiNorm0(in_alpha, in_beta)),
                  SSqrt(RDiv(dtemp_3, dtemp_4))),
             SRat(dtemp_5))
  ELSE
    LET dtemp_0 == RInt(in_mode * (in_mode + in_alpha + in_beta)
                          * (in_mode + in_alpha) * (in_mode + in_beta))
        dtemp_1 == RInt(((2 * in_mode) + in_alpha + in_beta - 1)
                          * ((2 * in_mode) + in_alpha + in_beta + 1))
        dtemp_3 == RInt((2 * in_mode) + in_alpha + in_beta)
        dtemp_4 == RInt((in_mode - 1) * ((in_mode - 1) + in_alpha + in_beta)
                          * ((in_mode - 1) + in_alpha) * ((in_mode - 1) + in_beta))
        dtemp_5 == RInt(((2 * (in_mode - 1)) + in_alpha + in_beta - 1)
                          * ((2 * (in_mode - 1)) + in_alpha + in_beta + 1))
        dtemp_6 == RInt((2 * (in_mode - 1)) + in_alpha + in_beta)
        dtemp_7 == RInt(-((in_alpha * in_alpha) - (in_beta * in_beta)))
        dtemp_8 == RInt(((2 * (in_mode - 1)) + in_alpha + in_beta)
                          * ((2 * (in_mode - 1)) + in_alpha + in_beta + 2))
        dtemp_9 == SMul(SRat(RDiv(RInt(2), dtemp_3)), SSqrt(RDiv(dtemp_0, dtemp_1)))
        dtemp_10 == SMul(SRat(RDiv(RInt(2), dtemp_6)), SSqrt(RDiv(dtemp_4, dtemp_5)))
        dtemp_11 == RDiv(dtemp_7, dtemp_8)
        combine(jm1, jm2) ==
          LET dtemp_12 == SMul(SRat(in_r), jm1)
              dtemp_13 == SMul(dtemp_10, jm2)
              dtemp_14 == SMul(SRat(dtemp_11), jm1)
          IN  SMul(SInv(dtemp_9), SSub(SSub(dtemp_12, dtemp_13), dtemp_14))
    IN  Strict2(combine, eval_jacobi(in_r, in_alpha, in_beta, in_mode - 1),
                         eval_jacobi(in_r, in_alpha, in_beta, in_mode - 2))

\* the deepest nesting the recursion of eval_jacobi reaches from a call at
\* nesting d; the else branch calls in_mode-1, in_mode-2 and in_mode-1 again,
\* each after the one before returned
RECURSIVE eval_jacobi_frames(_, _)
eval_jacobi_frames(in_mode, d) ==
  IF d > MaxStack THEN d
  ELSE IF in_mode = 0 \/ in_mode = 1 THEN d
  ELSE LET first == eval_jacobi_frames(in_mode - 1, d + 1)
       IN  IF first > MaxStack THEN first
           ELSE Max(first, eval_jacobi_frames(in_mode - 2, d + 1))

\* the nesting of eval_grad_jacobi: one call of eval_jacobi unless in_mode == 0
eval_grad_jacobi_frames(in_mode) ==
  IF in_mode = 0 THEN 0 ELSE eval_jacobi_frames(in_mode - 1, 1)

eval_grad_jacobi(in_r, in_alpha, in_beta, in_mode) ==
  IF in_mode = 0 THEN SRat(Zero)
  ELSE SMul(SSqrt(RInt(in_mode * (in_mode + in_alpha + in_beta + 1))),
            eval_jacobi(in_r, in_alpha + 1, in_beta + 1, in_mode - 1))

\* whether every sum eval_jacobi forms is a sum of surds over one radicand
RECURSIVE JacobiExact(_, _, _, _)
JacobiExact(in_r, in_alpha, in_beta, in_mode) ==
  IF in_mode < 2 THEN TRUE
  ELSE
    LET dtemp_4 == RInt((in_mode - 1) * ((in_mode - 1) + in_alpha + in_beta)
                          * ((in_mode - 1) + in_alpha) * ((in_mode - 1) + in_beta))
        dtemp_5 == RInt(((2 * (in_mode - 1)) + in_alpha + in_beta - 1)
                          * ((2 * (in_mode - 1)) + in_alpha + in_beta + 1))
        dtemp_6 == RInt((2 * (in_mode - 1)) + in_alpha + in_beta)
        dtemp_10 == SMul(SRat(RDiv(RInt(2), dtemp_6)), SSqrt(RDiv(dtemp_4, dtemp_5)))
        jm1 == eval_jacobi(in_r, in_alpha, in_beta, in_mode - 1)
        dtemp_13 == SMul(dtemp_10, eval_jacobi(in_r, in_alpha, in_beta, in_mode - 2))
    IN  /\ SAddable(jm1, dtemp_13)
        /\ JacobiExact(in_r, in_alpha, in_beta, in_mode - 1)
        /\ JacobiExact(in_r, in_alpha, in_beta, in_mode - 2)

-----------------------------------------------------------------------------
(* Dubiner basis on the reference triangle *)

\* rs_to_ab: ab is declared without a value, so a member never assigned
\* holds whatever the declaration left there (uninit)
\* the singularity guard of rs_to_ab: if (rs.x == 1.0)
rs_to_ab_guard(rs) == rs.x = One

\* the divisor 1.0-rs.y of the quotient the else branch evaluates
rs_to_ab_divisor(rs) == RSub(One, rs.y)

rs_to_ab(rs, uninit) ==
  LET ab0 == [x |-> uninit, y |-> uninit]
      ab1 == IF rs_to_ab_guard(rs)
               THEN [ab0 EXCEPT !.x = RInt(-1)]
               ELSE [ab0 EXCEPT !.y = RSub(RMul(RInt(2),
                                                RDiv(RAdd(One, rs.x), rs_to_ab_divisor(rs))),
                                           One)]
  IN  [ab1 EXCEPT !.y = rs.y]

\* n_dof of the triangle
TriangleDof(order) == ((order + 1) * (order + 2)) \div 2

Sqrt2 == SSqrt(RInt(2))

\* the accepted modes of eval_dubiner_basis_2d: in_mode < n_dof
Dubiner_valid(in_mode, in_basis_order) == in_mode < TriangleDof(in_basis_order)

eval_dubiner_basis_2d(in_rs, in_mode, in_basis_order, uninit) ==
  IF Dubiner_valid(in_mode, in_basis_order)
    THEN LET ab == rs_to_ab(in_rs, uninit)
             f == Dubiner_sweep(in_mode, in_basis_order, 0, SweepStart)
             jacobi_0 == eval_jacobi(ab.x, 0, 0, f.i)
             jacobi_1 == eval_jacobi(ab.y, (2 * f.i) + 1, 0, f.j)
         IN  [st |-> "ok", sel |-> f,
              val |-> IF f.hit
                        THEN SMul(SMul(SMul(Sqrt2, jacobi_0), jacobi_1),
                                  SRat(RPow(RSub(One, ab.y), f.i)))
                        ELSE SRat(Zero)]
    ELSE FatalError("Invalid mode when evaluating Dubiner basis.")

\* the accepted modes of eval_dr_dubiner_basis_2d
DrDubiner_valid(in_mode, in_basis_order) == in_mode < TriangleDof(in_basis_order)

eval_dr_dubiner_basis_2d(in_rs, in_mode, in_basis_order, uninit) ==
  IF DrDubiner_valid(in_mode, in_basis_order)
    THEN LET ab == rs_to_ab(in_rs, uninit)
             f == DrDubiner_sweep(in_mode, in_basis_order, 0, SweepStart)
             jacobi_0 == eval_grad_jacobi(ab.x, 0, 0, f.i)
             jacobi_1 == eval_jacobi(ab.y, (2 * f.i) + 1, 0, f.j)
         IN  [st |-> "ok", sel |-> f,
              val |-> IF ~f.hit \/ f.i = 0
                        THEN SRat(Zero)
                        ELSE SMul(SMul(SMul(SMul(SRat(RInt(2)), Sqrt2), jacobi_0), jacobi_1),
                                  SRat(RPow(RSub(One, ab.y), f.i - 1)))]
    ELSE FatalError("Invalid mode when evaluating basis.")

\* mutant of DsDubiner_valid: the bound taken inclusive
DsDubiner_valid_inclusive(in_mode, in_basis_order) ==
  in_mode <= TriangleDof(in_basis_order)

\* the accepted modes of eval_ds_dubiner_basis_2d
DsDubiner_valid(in_mode, in_basis_order) == in_mode < TriangleDof(in_basis_order)

\* the two terms the i # 0 branch of eval_ds_dubiner_basis_2d adds
DsDubiner_terms(ab, i, j) ==
  LET jacobi_0 == eval_grad_jacobi(ab.x, 0, 0, i)
      jacobi_1 == eval_jacobi(ab.y, (2 * i) + 1, 0, j)
      jacobi_2 == eval_jacobi(ab.x, 0, 0, i)
      jacobi_3 == SMul(eval_grad_jacobi(ab.y, (2 * i) + 1, 0, j),
                       SRat(RPow(RSub(One, ab.y), i)))
      jacobi_4 == SMul(SMul(eval_jacobi(ab.y, (2 * i) + 1, 0, j), SRat(RInt(i))),
                       SRat(RPow(RSub(One, ab.y), i - 1)))
  IN  [t1 |-> SMul(SMul(SMul(jacobi_0, jacobi_1), SRat(RPow(RSub(One, ab.y), i - 1))),
                   SRat(RAdd(One, ab.x))),
       j2 |-> jacobi_2, j3 |-> jacobi_3, j4 |-> jacobi_4]

eval_ds_dubiner_basis_2d(in_rs, in_mode, in_basis_order, uninit) ==
  IF DsDubiner_valid(in_mode, in_basis_order)
    THEN LET ab == rs_to_ab(in_rs, uninit)
             f == DsDubiner_sweep(in_mode, in_basis_order, 0, SweepStart)
             jacobi_2 == eval_jacobi(ab.x, 0, 0, f.i)
             jacobi_3 == SMul(eval_grad_jacobi(ab.y, (2 * f.i) + 1, 0, f.j),
                              SRat(RPow(RSub(One, ab.y), f.i)))
             t == DsDubiner_terms(ab, f.i, f.j)
         IN  [st |-> "ok", sel |-> f,
              val |-> IF ~f.hit THEN SRat(Zero)
                      ELSE IF f.i = 0 THEN SMul(Sqrt2, SMul(jacobi_2, jacobi_3))
                      ELSE SMul(Sqrt2, SAdd(t.t1, SMul(t.j2, SSub(t.j3, t.j4))))]
    ELSE FatalError("ERROR: Invalid mode when evaluating basis.")

\* whether the sums of eval_ds_dubiner_basis_2d are sums over one radicand
DsDubinerExact(ab, i, j) ==
  LET t == DsDubiner_terms(ab, i, j)
  IN  i = 0 \/ (SAddable(t.j3, t.j4) /\ SAddable(t.t1, SMul(t.j2, SSub(t.j3, t.j4))))

-----------------------------------------------------------------------------
(* Arguments of the calls *)

\* coordinates of the evaluation points
Coords == {RInt(-1), RNorm(-1, 2), Zero, One}

\* abscissas at which the correction functions are evaluated
XiSet == {RInt(-1), RNorm(-1, 2), Zero, RNorm(1, 3), One, RNorm(3, 2)}

\* what a point member that was never assigned may hold
Indeterminate == {Zero, RNorm(1, 2), RInt(-1)}

\* scheme tags handed to compute_eta: the four schemes and two unknown tags
SchemeTags == {-1, DG, SD, HU, CPLUS, 4}

\* the side argument of the correction functions
Sides == {0, 1, 2}

\* exponents of the filter
Exponents == {1, 2, 3}

\* abscissas of interpolation nodes
NodeAbscissas == {RInt(-1), RNorm(-1, 2), Zero, RNorm(1, 2), One}

\* the node sets: sequences of pairwise distinct abscissas
NodeSets ==
  UNION {{x \in [1 .. n -> NodeAbscissas] : \A a, b \in 1 .. n : a # b => x[a] # x[b]} :
           n \in 1 .. MaxNodes}

\* the points at which the Lagrange functions are evaluated
LagrangePoints == NodeAbscissas \cup {RNorm(1, 3)}

\* the integer weights (alpha, beta) handed to the Jacobi functions
JacobiWeights == {<<0, 0>>, <<1, 0>>, <<1, 1>>, <<2, 1>>, <<3, 0>>}

\* the points at which dLegendre is evaluated: XiSet and two points left of -1
dLegendrePoints == XiSet \cup {RNorm(-3, 2), RInt(-2)}

\* the blending constants compute_eta returns at this order
SchemeEtas(order) ==
  {compute_eta(sch, order).val :
     sch \in {t \in SchemeTags : compute_eta(t, order).st = "ok"}}

\* blending constants handed to the correction functions
EtaInputs(order) == SchemeEtas(order) \cup {RNorm(-1, 2), RInt(3)}

\* the blending constants evaluated at abscissa xi: all of them at the integer
\* abscissas, and those with a short denominator elsewhere (the products of
\* the long C_plus constants with Legendre values at fractions leave 32 bits)
EtaInputsAt(xi, order) ==
  IF xi[2] = 1 THEN EtaInputs(order)
               ELSE {e \in EtaInputs(order) : RIsFinite(e) /\ e[2] <= 400}

-----------------------------------------------------------------------------
(* The MPI output functions of output.cpp: every rank of the run executes  *)
(* the same function, one statement group at a time.  The argument record  *)
(* of a run holds params->nproc, Solver->eles.size() of every rank,        *)
(* params->overset (or meshType == OVERSET_MESH), the first rank of the    *)
(* second grid, Geo->nBounds, params->testCase and params->nFields.        *)

\* the ranks of the run, 0 .. params->nproc - 1 (none outside a run)
Ranks == DOMAIN loc

\* the grids of an overset run: ranks below arg.split form grid 0, the others
\* grid 1; a run that is not overset has the one grid 0
gridID(r) == IF arg.overset /\ r >= arg.split THEN 1 ELSE 0
gridComm(r) == {q \in Ranks : gridID(q) = gridID(r)}
gridRank(r) == Cardinality({q \in gridComm(r) : q < r})
nprocPerGrid(r) == Cardinality(gridComm(r))
RankOf(g, p) == CHOOSE q \in Ranks : gridID(q) = g /\ gridRank(q) = p

\* Solver->myComm: the communicator of the whole run
myComm == Ranks

\* the number of times the rank history s holds the collective tag
Count(s, tag) == Cardinality({i \in DOMAIN s : s[i] = tag})

\* MPI_Barrier returns on r once every rank of the communicator entered it
BarrierComplete(r) ==
  \A q \in myComm :
    Count(collectives[q], "MPI_Barrier") >= Count(collectives[r], "MPI_Barrier")

\* MPI_Allgather returns on r once every rank of its grid has contributed
AllgatherComplete(r) ==
  \A q \in gridComm(r) : Len(sendbuf[q]) >= Len(sendbuf[r])

\* the receive buffer of the Allgather r is in, indexed by grid rank
recvbuf(r) ==
  [p \in 0 .. nprocPerGrid(r) - 1
     |-> sendbuf[RankOf(gridID(r), p)][Len(sendbuf[r])]]

\* the per-iteration sub-directory after the master's stat/mkdir
mkdir_wrongRank(rank, exists) == IF rank = 1 THEN TRUE ELSE exists

mkdir(rank, exists) == IF rank = 0 THEN TRUE ELSE exists

\* the .vtu a rank writes in writeParaview, and the Piece the .pvtu of grid g
\* names for grid rank p
vtuName(r) ==
  IF arg.overset THEN <<"vtu", gridID(r), gridRank(r)>> ELSE <<"vtu", -1, r>>

pieceName(g, p) ==
  IF arg.overset THEN <<"vtu", g, p>> ELSE <<"vtu", -1, p>>

pvtuName(g) == IF arg.overset THEN <<"pvtu", g>> ELSE <<"pvtu", -1>>

\* mutant of ListsPiece: a Piece for every rank
ListsPiece_always(nEles_rank_p) == nEles_rank_p >= 0

\* if (nEles_rank[p]>0)
ListsPiece(nEles_rank_p) == nEles_rank_p > 0

\* the Piece lines of the .pvtu written from the receive buffer nEles_rank
Pieces(g, nEles_rank) ==
  {pieceName(g, p) : p \in {q \in DOMAIN nEles_rank : ListsPiece(nEles_rank[q])}}

\* the files of writeSurfaces for boundary b
surfName(r, b) ==
  IF arg.overset THEN <<"surf", b, gridID(r), gridRank(r)>> ELSE <<"surf", b, -1, r>>

surfPieceName(g, p, b) ==
  IF arg.overset THEN <<"surf", b, g, p>> ELSE <<"surf", b, -1, p>>

surfPvtuName(g, b) ==
  IF arg.overset THEN <<"surf_pvtu", b, g>> ELSE <<"surf_pvtu", b, -1>>

SurfPieces(g, b, nFaces_rank) ==
  {surfPieceName(g, p, b) : p \in {q \in DOMAIN nFaces_rank : nFaces_rank[q] > 0}}

\* nFaces of a rank for a boundary: every element of the rank has one face on
\* every boundary
nFaces(r) == arg.nEles[r]

\* dataFile.open(fileNameC) on the file system f
Open(f, name) ==
  [f EXCEPT !.vtu = @ \cup {name},
            !.early = IF f.dir THEN @ ELSE @ \cup {name}]

\* the size of the vectors Solver->integrateError(), integrateErrorOverset()
\* and Solver->computeMassFlux() return: one entry for each field
integrateError(nFields) == nFields
computeMassFlux(nFields) == nFields

\* the size of err when writeError reaches the output
err_size(testCase, nFields) ==
  IF testCase = 1 THEN integrateError(nFields)
  ELSE IF testCase = 2 THEN computeMassFlux(nFields)
  ELSE 0

\* one call of writeError: nothing for testCase 0, else the size of err and
\* the number of entries err[0], err[1], ... the rank writes to the .err file
writeError(testCase, nFields, errorNorm, rank) ==
  IF testCase = 0 THEN <<>>
  ELSE <<[errorNorm |-> errorNorm,
          size |-> err_size(testCase, nFields),
          columns |-> IF rank = 0 THEN nFields ELSE 0]>>

writeAllError(testCase, nFields, errorNorm, rank) ==
  IF testCase = 1
    THEN writeError(testCase, nFields, 0, rank)
           \o writeError(testCase, nFields, 1, rank)
           \o writeError(testCase, nFields, 2, rank)
  ELSE IF testCase = 2 THEN writeError(testCase, nFields, errorNorm, rank)
  ELSE IF testCase = 3 THEN writeError(testCase, nFields, 0, rank)
  ELSE <<>>

\* the runs: the element counts of the ranks and the grids of the run
Grids(n) ==
  {[overset |-> FALSE, split |-> n]}
    \cup {[overset |-> TRUE, split |-> s] : s \in 1 .. n - 1}

RunArg(n, eles, grid, nb, tc, nf) ==
  [nproc |-> n, nEles |-> eles, overset |-> grid.overset, split |-> grid.split,
   nBounds |-> nb, testCase |-> tc, nFields |-> nf, errorNorm |-> 0]

NoRanks == <<>>
NoFiles == [dir |-> FALSE, vtu |-> {}, early |-> {}, pvtu |-> {}]
AllAt(n, where) == [r \in 0 .. n - 1 |-> where]

-----------------------------------------------------------------------------
(* The state machine: a caller invokes one function and takes its result, *)
(* or the ranks of an MPI run execute one output function                  *)

NoArg == [none |-> TRUE]
NoRet == [st |-> "none"]

Init ==
  /\ pc = "idle"
  /\ fn = "none"
  /\ arg = NoArg
  /\ ret = NoRet
  /\ loc = NoRanks
  /\ collectives = NoRanks
  /\ sendbuf = NoRanks
  /\ bnd = NoRanks
  /\ fs = NoFiles
  /\ errlog = NoRanks

Call_compute_eta ==
  /\ pc = "idle"
  /\ \E vcjh_scheme \in SchemeTags, order \in -2 .. MaxVcjhOrder :
       /\ arg' = [vcjh_scheme |-> vcjh_scheme, order |-> order]
       /\ ret' = compute_eta(vcjh_scheme, order)
  /\ fn' = "compute_eta"
  /\ pc' = "done"
  /\ UNCHANGED outvars

Call_VCJH_1d ==
  /\ pc = "idle"
  /\ \E xi \in XiSet, mode \in Sides, order \in 0 .. MaxVcjhOrder :
       \E eta \in EtaInputsAt(xi, order) :
         /\ arg' = [xi |-> xi, mode |-> mode, order |-> order, eta |-> eta]
         /\ ret' = Returns(VCJH_1d(xi, mode, order, eta))
  /\ fn' = "VCJH_1d"
  /\ pc' = "done"
  /\ UNCHANGED outvars

Call_dVCJH_1d ==
  /\ pc = "idle"
  /\ \E in_r \in XiSet, in_mode \in Sides, in_order \in 0 .. MaxVcjhOrder :
       \E in_eta \in EtaInputsAt(in_r, in_order) :
         /\ arg' = [xi |-> in_r, mode |-> in_mode, order |-> in_order, eta |-> in_eta]
         /\ ret' = Returns(dVCJH_1d(in_r, in_mode, in_order, in_eta))
  /\ fn' = "dVCJH_1d"
  /\ pc' = "done"
  /\ UNCHANGED outvars

Call_rs_to_ab ==
  /\ pc = "idle"
  /\ \E r \in Coords, s \in Coords, uninit \in Indeterminate :
       /\ arg' = [rs |-> [x |-> r, y |-> s]]
       /\ ret' = [st |-> "ok", ab |-> rs_to_ab([x |-> r, y |-> s], uninit)]
  /\ fn' = "rs_to_ab"
  /\ pc' = "done"
  /\ UNCHANGED outvars

Call_Legendre2D_hierarchical ==
  /\ pc = "idle"
  /\ \E in_basis_order \in 0 .. MaxOrder, x \in Coords, y \in Coords :
       \E in_mode \in -2 .. SquareDof(in_basis_order) + 1 :
         /\ arg' = [mode |-> in_mode, loc |-> <<x, y>>, order |-> in_basis_order]
         /\ ret' = Legendre2D_hierarchical(in_mode, <<x, y>>, in_basis_order)
  /\ fn' = "Legendre2D_hierarchical"
  /\ pc' = "done"
  /\ UNCHANGED outvars

Call_exponential_filter ==
  /\ pc = "idle"
  /\ \E inBasisOrder \in 0 .. MaxOrder, exponent \in Exponents :
       \E in_mode \in -2 .. SquareDof(inBasisOrder) + 1 :
         /\ arg' = [mode |-> in_mode, order |-> inBasisOrder, exponent |-> exponent]
         /\ ret' = exponential_filter(in_mode, inBasisOrder, exponent)
  /\ fn' = "exponential_filter"
  /\ pc' = "done"
  /\ UNCHANGED outvars

Call_eval_dubiner_basis_2d ==
  /\ pc = "idle"
  /\ \E in_basis_order \in 0 .. MaxOrder, r \in Coords, s \in Coords,
        uninit \in Indeterminate :
       \E in_mode \in -2 .. TriangleDof(in_basis_order) + 1 :
         /\ arg' = [rs |-> [x |-> r, y |-> s], mode |-> in_mode, order |-> in_basis_order]
         /\ ret' = eval_dubiner_basis_2d([x |-> r, y |-> s], in_mode, in_basis_order, uninit)
  /\ fn' = "eval_dubiner_basis_2d"
  /\ pc' = "done"
  /\ UNCHANGED outvars

Call_eval_dr_dubiner_basis_2d ==
  /\ pc = "idle"
  /\ \E in_basis_order \in 0 .. MaxOrder, r \in Coords, s \in Coords,
        uninit \in Indeterminate :
       \E in_mode \in -2 .. TriangleDof(in_basis_order) + 1 :
         /\ arg' = [rs |-> [x |-> r, y |-> s], mode |-> in_mode, order |-> in_basis_order]
         /\ ret' = eval_dr_dubiner_basis_2d([x |-> r, y |-> s], in_mode, in_basis_order,
                                            uninit)
  /\ fn' = "eval_dr_dubiner_basis_2d"
  /\ pc' = "done"
  /\ UNCHANGED outvars

Call_eval_ds_dubiner_basis_2d ==
  /\ pc = "idle"
  /\ \E in_basis_order \in 0 .. MaxOrder, r \in Coords, s \in Coords,
        uninit \in Indeterminate :
       \E in_mode \in -2 .. TriangleDof(in_basis_order) + 1 :
         /\ arg' = [rs |-> [x |-> r, y |-> s], mode |-> in_mode, order |-> in_basis_order]
         /\ ret' = eval_ds_dubiner_basis_2d([x |-> r, y |-> s], in_mode, in_basis_order,
                                            uninit)
  /\ fn' = "eval_ds_dubiner_basis_2d"
  /\ pc' = "done"
  /\ UNCHANGED outvars

Call_Lagrange ==
  /\ pc = "idle"
  /\ \E x_lag \in NodeSets, y \in LagrangePoints :
       \E mode \in 0 .. Len(x_lag) - 1 :
         /\ arg' = [x_lag |-> x_lag, y |-> y, mode |-> mode]
         /\ ret' = Returns(Lagrange(x_lag, y, mode))
  /\ fn' = "Lagrange"
  /\ pc' = "done"
  /\ UNCHANGED outvars

Call_dLagrange ==
  /\ pc = "idle"
  /\ \E x_lag \in NodeSets, y \in LagrangePoints :
       \E mode \in 0 .. Len(x_lag) - 1 :
         /\ arg' = [x_lag |-> x_lag, y |-> y, mode |-> mode]
         /\ ret' = Returns(dLagrange(x_lag, y, mode))
  /\ fn' = "dLagrange"
  /\ pc' = "done"
  /\ UNCHANGED outvars

Call_ddLagrange ==
  /\ pc = "idle"
  /\ \E x_lag \in NodeSets, y \in LagrangePoints :
       \E mode \in 0 .. Len(x_lag) - 1 :
         /\ arg' = [x_lag |-> x_lag, y |-> y, mode |-> mode]
         /\ ret' = Returns(ddLagrange(x_lag, y, mode))
  /\ fn' = "ddLagrange"
  /\ pc' = "done"
  /\ UNCHANGED outvars

Call_Legendre ==
  /\ pc = "idle"
  /\ \E in_r \in XiSet, in_mode \in -2 .. MaxVcjhOrder + 1 :
       /\ arg' = [r |-> in_r, mode |-> in_mode]
       /\ ret' = IF Legendre_frames(in_mode, 0) > MaxStack
                   THEN StackExhausted
                   ELSE ReturnsAtDepth(Legendre(in_r, in_mode), Legendre_frames(in_mode, 0))
  /\ fn' = "Legendre"
  /\ pc' = "done"
  /\ UNCHANGED outvars

Call_dLegendre ==
  /\ pc = "idle"
  /\ \E in_r \in dLegendrePoints, in_mode \in -2 .. MaxVcjhOrder + 1 :
       /\ arg' = [r |-> in_r, mode |-> in_mode]
       /\ ret' = Returns(dLegendre(in_r, in_mode))
  /\ fn' = "dLegendre"
  /\ pc' = "done"
  /\ UNCHANGED outvars

Call_eval_jacobi ==
  /\ pc = "idle"
  /\ \E in_r \in Coords, w \in JacobiWeights, in_mode \in -2 .. MaxJacobiMode :
       /\ arg' = [r |-> in_r, alpha |-> w[1], beta |-> w[2], mode |-> in_mode]
       /\ ret' = IF eval_jacobi_frames(in_mode, 0) > MaxStack
                   THEN StackExhausted
                   ELSE ReturnsAtDepth(eval_jacobi(in_r, w[1], w[2], in_mode),
                                       eval_jacobi_frames(in_mode, 0))
  /\ fn' = "eval_jacobi"
  /\ pc' = "done"
  /\ UNCHANGED outvars

Call_eval_grad_jacobi ==
  /\ pc = "idle"
  /\ \E in_r \in Coords, w \in JacobiWeights, in_mode \in -2 .. MaxJacobiMode :
       /\ arg' = [r |-> in_r, alpha |-> w[1], beta |-> w[2], mode |-> in_mode]
       /\ ret' = IF eval_grad_jacobi_frames(in_mode) > MaxStack
                   THEN StackExhausted
                   ELSE ReturnsAtDepth(eval_grad_jacobi(in_r, w[1], w[2], in_mode),
                                       eval_grad_jacobi_frames(in_mode))
  /\ fn' = "eval_grad_jacobi"
  /\ pc' = "done"
  /\ UNCHANGED outvars

Call_eval_gamma ==
  /\ pc = "idle"
  /\ \E in_n \in -2 .. MaxGammaArg :
       /\ arg' = [n |-> in_n]
       /\ ret' = [st |-> "ok", gamma_val |-> eval_gamma(in_n)]
  /\ fn' = "eval_gamma"
  /\ pc' = "done"
  /\ UNCHANGED outvars

\* the caller has taken the result (or the process has ended) and starts over
Finish ==
  /\ pc = "done"
  /\ pc' = "idle"
  /\ fn' = "none"
  /\ arg' = NoArg
  /\ ret' = NoRet
  /\ UNCHANGED outvars

\* an MPI run of writeParaview begins on every rank
Start_writeParaview ==
  /\ pc = "idle"
  /\ \E n \in 1 .. MaxRanks :
       \E eles \in [0 .. n - 1 -> 0 .. MaxEles], grid \in Grids(n) :
         /\ arg' = RunArg(n, eles, grid, 0, 0, 1)
         /\ loc' = AllAt(n, "allgather")
         /\ collectives' = AllAt(n, <<>>)
         /\ sendbuf' = AllAt(n, <<>>)
         /\ bnd' = AllAt(n, 0)
         /\ errlog' = AllAt(n, <<>>)
  /\ fs' = NoFiles
  /\ fn' = "writeParaview"
  /\ pc' = "run"
  /\ UNCHANGED ret

\* MPI_Allgather(&nEles, ...) entered
writeParaview_Allgather(r) ==
  /\ pc = "run" /\ fn = "writeParaview" /\ loc[r] = "allgather"
  /\ sendbuf' = [sendbuf EXCEPT ![r] = Append(@, arg.nEles[r])]
  /\ collectives' = [collectives EXCEPT ![r] = Append(@, "MPI_Allgather")]
  /\ loc' = [loc EXCEPT ![r] = "in_allgather"]
  /\ UNCHANGED <<pc, fn, arg, ret, bnd, fs, errlog>>

\* the Allgather returned; grid rank 0 writes the master .pvtu file
writeParaview_pvtu(r) ==
  /\ pc = "run" /\ fn = "writeParaview" /\ loc[r] = "in_allgather"
  /\ AllgatherComplete(r)
  /\ fs' = IF gridRank(r) = 0
             THEN [fs EXCEPT !.pvtu = @ \cup {[name |-> pvtuName(gridID(r)),
                                              pieces |-> Pieces(gridID(r), recvbuf(r))]}]
             ELSE fs
  /\ loc' = [loc EXCEPT ![r] = IF gridRank(r) = 0 THEN "mkdir" ELSE "barrier"]
  /\ UNCHANGED <<pc, fn, arg, ret, collectives, sendbuf, bnd, errlog>>

\* the master rank creates the sub-directory (inside the gridRank == 0 branch)
writeParaview_mkdir(r) ==
  /\ pc = "run" /\ fn = "writeParaview" /\ loc[r] = "mkdir"
  /\ fs' = [fs EXCEPT !.dir = mkdir(r, @)]
  /\ loc' = [loc EXCEPT ![r] = "barrier"]
  /\ UNCHANGED <<pc, fn, arg, ret, collectives, sendbuf, bnd, errlog>>

\* MPI_Barrier(Solver->myComm) entered
writeParaview_Barrier(r) ==
  /\ pc = "run" /\ fn = "writeParaview" /\ loc[r] = "barrier"
  /\ collectives' = [collectives EXCEPT ![r] = Append(@, "MPI_Barrier")]
  /\ loc' = [loc EXCEPT ![r] = "in_barrier"]
  /\ UNCHANGED <<pc, fn, arg, ret, sendbuf, bnd, fs, errlog>>

\* the barrier returned; a rank without elements returns, the others open
\* and write their .vtu file
writeParaview_open(r) ==
  /\ pc = "run" /\ fn = "writeParaview" /\ loc[r] = "in_barrier"
  /\ BarrierComplete(r)
  /\ fs' = IF arg.nEles[r] = 0 THEN fs ELSE Open(fs, vtuName(r))
  /\ loc' = [loc EXCEPT ![r] = "returned"]
  /\ UNCHANGED <<pc, fn, arg, ret, collectives, sendbuf, bnd, errlog>>

\* an MPI run of writeSurfaces begins on every rank
Start_writeSurfaces ==
  /\ pc = "idle"
  /\ \E n \in 1 .. MaxRanks :
       \E eles \in [0 .. n - 1 -> 0 .. MaxEles], grid \in Grids(n),
          nb \in 0 .. MaxBounds :
         /\ arg' = RunArg(n, eles, grid, nb, 0, 1)
         /\ loc' = AllAt(n, "mkdir")
         /\ collectives' = AllAt(n, <<>>)
         /\ sendbuf' = AllAt(n, <<>>)
         /\ bnd' = AllAt(n, 0)
         /\ errlog' = AllAt(n, <<>>)
  /\ fs' = NoFiles
  /\ fn' = "writeSurfaces"
  /\ pc' = "run"
  /\ UNCHANGED ret

\* the master rank creates the sub-directory
writeSurfaces_mkdir(r) ==
  /\ pc = "run" /\ fn = "writeSurfaces" /\ loc[r] = "mkdir"
  /\ fs' = [fs EXCEPT !.dir = mkdir(r, @)]
  /\ loc' = [loc EXCEPT ![r] = "barrier"]
  /\ UNCHANGED <<pc, fn, arg, ret, collectives, sendbuf, bnd, errlog>>

\* MPI_Barrier(Solver->myComm) entered
writeSurfaces_Barrier(r) ==
  /\ pc = "run" /\ fn = "writeSurfaces" /\ loc[r] = "barrier"
  /\ collectives' = [collectives EXCEPT ![r] = Append(@, "MPI_Barrier")]
  /\ loc' = [loc EXCEPT ![r] = "in_barrier"]
  /\ UNCHANGED <<pc, fn, arg, ret, sendbuf, bnd, fs, errlog>>

\* the head of the boundary loop, entered from the barrier or from the end of
\* the body: the loop ends, or a rank without elements returns from the
\* function, or the rank opens and writes its surface file
writeSurfaces_open(r) ==
  /\ pc = "run" /\ fn = "writeSurfaces"
  /\ \/ loc[r] = "in_barrier" /\ BarrierComplete(r)
     \/ loc[r] = "loop"
  /\ IF bnd[r] >= arg.nBounds \/ arg.nEles[r] = 0
       THEN /\ loc' = [loc EXCEPT ![r] = "returned"]
            /\ fs' = fs
       ELSE /\ loc' = [loc EXCEPT ![r] = "allgather"]
            /\ fs' = Open(fs, surfName(r, bnd[r]))
  /\ UNCHANGED <<pc, fn, arg, ret, collectives, sendbuf, bnd, errlog>>

\* MPI_Allgather(&nFaces, ...) entered
writeSurfaces_Allgather(r) ==
  /\ pc = "run" /\ fn = "writeSurfaces" /\ loc[r] = "allgather"
  /\ sendbuf' = [sendbuf EXCEPT ![r] = Append(@, nFaces(r))]
  /\ collectives' = [collectives EXCEPT ![r] = Append(@, "MPI_Allgather")]
  /\ loc' = [loc EXCEPT ![r] = "in_allgather"]
  /\ UNCHANGED <<pc, fn, arg, ret, bnd, fs, errlog>>

\* the Allgather returned; grid rank 0 writes the .pvtu of the boundary, and
\* the loop goes on to the next boundary
writeSurfaces_pvtu(r) ==
  /\ pc = "run" /\ fn = "writeSurfaces" /\ loc[r] = "in_allgather"
  /\ AllgatherComplete(r)
  /\ fs' = IF gridRank(r) = 0
             THEN [fs EXCEPT !.pvtu = @ \cup {[name |-> surfPvtuName(gridID(r), bnd[r]),
                                              pieces |-> SurfPieces(gridID(r), bnd[r], recvbuf(r))]}]
             ELSE fs
  /\ bnd' = [bnd EXCEPT ![r] = @ + 1]
  /\ loc' = [loc EXCEPT ![r] = "loop"]
  /\ UNCHANGED <<pc, fn, arg, ret, collectives, sendbuf, errlog>>

\* every rank calls writeAllError
Start_writeAllError ==
  /\ pc = "idle"
  /\ \E n \in 1 .. MaxRanks, tc \in 0 .. 4, nf \in 1 .. MaxFields :
       /\ arg' = RunArg(n, AllAt(n, 1), [overset |-> FALSE, split |-> n], 0, tc, nf)
       /\ loc' = AllAt(n, "call")
       /\ collectives' = AllAt(n, <<>>)
       /\ sendbuf' = AllAt(n, <<>>)
       /\ bnd' = AllAt(n, 0)
       /\ errlog' = AllAt(n, <<>>)
  /\ fs' = NoFiles
  /\ fn' = "writeAllError"
  /\ pc' = "run"
  /\ UNCHANGED ret

Call_writeAllError(r) ==
  /\ pc = "run" /\ fn = "writeAllError" /\ loc[r] = "call"
  /\ errlog' = [errlog EXCEPT
                  ![r] = writeAllError(arg.testCase, arg.nFields, arg.errorNorm, r)]
  /\ loc' = [loc EXCEPT ![r] = "returned"]
  /\ UNCHANGED <<pc, fn, arg, ret, collectives, sendbuf, bnd, fs>>

\* every rank calls writeError directly
Start_writeError ==
  /\ pc = "idle"
  /\ \E n \in 1 .. MaxRanks, tc \in 0 .. 4, nf \in 1 .. MaxFields :
       /\ arg' = RunArg(n, AllAt(n, 1), [overset |-> FALSE, split |-> n], 0, tc, nf)
       /\ loc' = AllAt(n, "call")
       /\ collectives' = AllAt(n, <<>>)
       /\ sendbuf' = AllAt(n, <<>>)
       /\ bnd' = AllAt(n, 0)
       /\ errlog' = AllAt(n, <<>>)
  /\ fs' = NoFiles
  /\ fn' = "writeError"
  /\ pc' = "run"
  /\ UNCHANGED ret

Call_writeError(r) ==
  /\ pc = "run" /\ fn = "writeError" /\ loc[r] = "call"
  /\ errlog' = [errlog EXCEPT
                  ![r] = writeError(arg.testCase, arg.nFields, arg.errorNorm, r)]
  /\ loc' = [loc EXCEPT ![r] = "returned"]
  /\ UNCHANGED <<pc, fn, arg, ret, collectives, sendbuf, bnd, fs>>

\* the function returned on every rank: the run is over
Finish_run ==
  /\ pc = "run"
  /\ \A r \in Ranks : loc[r] = "returned"
  /\ pc' = "idle"
  /\ fn' = "none"
  /\ arg' = NoArg
  /\ loc' = NoRanks
  /\ collectives' = NoRanks
  /\ sendbuf' = NoRanks
  /\ bnd' = NoRanks
  /\ errlog' = NoRanks
  /\ fs' = NoFiles
  /\ UNCHANGED ret

Next ==
  \/ Call_compute_eta
  \/ Call_VCJH_1d
  \/ Call_dVCJH_1d
  \/ Call_rs_to_ab
  \/ Call_Legendre2D_hierarchical
  \/ Call_exponential_filter
  \/ Call_eval_dubiner_basis_2d
  \/ Call_eval_dr_dubiner_basis_2d
  \/ Call_eval_ds_dubiner_basis_2d
  \/ Call_Lagrange
  \/ Call_dLagrange
  \/ Call_ddLagrange
  \/ Call_Legendre
  \/ Call_dLegendre
  \/ Call_eval_jacobi
  \/ Call_eval_grad_jacobi
  \/ Call_eval_gamma
  \/ Finish
  \/ Start_writeParaview
  \/ \E r \in Ranks : writeParaview_Allgather(r)
  \/ \E r \in Ranks : writeParaview_pvtu(r)
  \/ \E r \in Ranks : writeParaview_mkdir(r)
  \/ \E r \in Ranks : writeParaview_Barrier(r)
  \/ \E r \in Ranks : writeParaview_open(r)
  \/ Start_writeSurfaces
  \/ \E r \in Ranks : writeSurfaces_mkdir(r)
  \/ \E r \in Ranks : writeSurfaces_Barrier(r)
  \/ \E r \in Ranks : writeSurfaces_open(r)
  \/ \E r \in Ranks : writeSurfaces_Allgather(r)
  \/ \E r \in Ranks : writeSurfaces_pvtu(r)
  \/ Start_writeAllError
  \/ \E r \in Ranks : Call_writeAllError(r)
  \/ Start_writeError
  \/ \E r \in Ranks : Call_writeError(r)
  \/ Finish_run

Spec == Init /\ [][Next]_vars

-----------------------------------------------------------------------------
(* Properties *)

Done(name) == pc = "done" /\ fn = name

\* C1: for every order P >= 0 the diagonal sweep of Legendre2D_hierarchical
\* and exponential_filter emits exactly (P+1)^2 pairs, so every mode in
\* 0..(P+1)^2-1 that passes the in_mode < n_dof guard is matched to a pair.
C1_SquareSweepComplete ==
  (Done("Legendre2D_hierarchical") \/ Done("exponential_filter")) /\ ret.st = "ok"
    => /\ ret.sel.n = SquareDof(arg.order)
       /\ (arg.mode \in 0 .. SquareDof(arg.order) - 1 => ret.sel.hit)

\* the scheme/order combinations for which compute_eta defines eta
ValidCombo(scheme, order) ==
  \/ scheme = DG /\ order >= 0
  \/ scheme \in {SD, HU} /\ order >= 1
  \/ scheme = CPLUS /\ order \in 2 .. 5

EtaOfValidCombo(order, eta) ==
  \E scheme \in {DG, SD, HU, CPLUS} :
    ValidCombo(scheme, order) /\ compute_eta(scheme, order) = Returns(eta)

\* C2: the right correction function is the mirror of the left one at the
\* endpoints: for every valid scheme/order combination, with eta from
\* compute_eta, VCJH_1d(1, 1, order, eta) = 1 and VCJH_1d(-1, 1, order, eta) = 0.
C2_RightEndpoints ==
  Done("VCJH_1d") /\ arg.mode = 1 /\ EtaOfValidCombo(arg.order, arg.eta)
    => /\ (arg.xi = One => ret.val = One)
       /\ (arg.xi = RInt(-1) => ret.val = Zero)

\* C3: rs_to_ab(r,s) returns (a,b) with a = -1 when r = 1,
\* a = 2(1+r)/(1-s) - 1 when r # 1, and b = s in both cases.
C3_CollapsedCoordinates ==
  Done("rs_to_ab")
    => /\ ret.ab.y = arg.rs.y
       /\ ret.ab.x = IF arg.rs.x = One
                        THEN RInt(-1)
                        ELSE RSub(RMul(RInt(2), RDiv(RAdd(One, arg.rs.x),
                                                     RSub(One, arg.rs.y))),
                                  One)

\* C4 as stated: for every order P >= 0 and every point, eval_dubiner_basis_2d
\* with mode 0 returns the constant sqrt(2), a value whose square is 2.
C4_ModeZeroIsSqrt2 ==
  Done("eval_dubiner_basis_2d") /\ ret.st = "ok" /\ arg.mode = 0
    => ret.val = Sqrt2 /\ SMul(ret.val, ret.val) = SRat(RInt(2))

\* C4 as amended: for every order P >= 0 and every point, eval_dubiner_basis_2d
\* with mode 0 returns the constant sqrt(2)/2 = 1/sqrt(2), a value whose square
\* is 1/2, independent of the point and of P.
C4_ModeZeroIsInvSqrt2 ==
  Done("eval_dubiner_basis_2d") /\ ret.st = "ok" /\ arg.mode = 0
    => ret.val = SMul(SRat(Half), Sqrt2) /\ SMul(ret.val, ret.val) = SRat(Half)

C4_Witness ==
  /\ Done("eval_dubiner_basis_2d") /\ ret.st = "ok"
  /\ arg.mode = 0 /\ arg.order = 2 /\ arg.rs = [x |-> Zero, y |-> RNorm(-1, 2)]
  /\ ret.sel.hit /\ ret.val = <<1, 2, 2>>

\* the truncated dimension of the family a function belongs to
FamilyDof(name, order) ==
  IF name \in {"Legendre2D_hierarchical", "exponential_filter"}
    THEN (order + 1) * (order + 1)
    ELSE ((order + 1) * (order + 2)) \div 2

ModalFunctions ==
  {"Legendre2D_hierarchical", "exponential_filter", "eval_dubiner_basis_2d",
   "eval_dr_dubiner_basis_2d", "eval_ds_dubiner_basis_2d"}

InvalidModeMessages ==
  {"Invalid mode when evaluating Legendre basis.",
   "Invalid mode when evaluating exponential filter.",
   "Invalid mode when evaluating Dubiner basis.",
   "Invalid mode when evaluating basis.",
   "ERROR: Invalid mode when evaluating basis."}

\* C5: a mode index at or above the family's truncated dimension always ends
\* in the invalid-mode fatal error and never yields a value: mode >= (P+1)^2
\* for Legendre2D_hierarchical and exponential_filter, mode >= (P+1)(P+2)/2
\* for the three Dubiner functions.
C5_InvalidModeIsFatal ==
  pc = "done" /\ fn \in ModalFunctions /\ arg.mode >= FamilyDof(fn, arg.order)
    => ret.st = "fatal" /\ ret.msg \in InvalidModeMessages

C5_Witness ==
  /\ Done("eval_ds_dubiner_basis_2d")
  /\ arg.order = 2 /\ arg.mode = 6
  /\ ret.st = "fatal"

\* C6: for every order P >= 0 the triangle sweep of eval_dubiner_basis_2d is a
\* bijection between the modes 0..(P+1)(P+2)/2-1 and the pairs
\* {(i,j) : i >= 0, j >= 0, i+j <= P}: every in-range mode is matched exactly
\* once and distinct modes get distinct pairs.
C6_TriangleSweepBijection ==
  Done("eval_dubiner_basis_2d") /\ ret.st = "ok"
    => LET P == arg.order
           N == ((P + 1) * (P + 2)) \div 2
           sel == [m \in 0 .. N - 1 |-> Dubiner_sweep(m, P, 0, SweepStart)]
       IN  /\ ret.sel.n = N
           /\ (arg.mode \in 0 .. N - 1 => ret.sel.hit /\ ret.sel = sel[arg.mode])
           /\ \A m \in 0 .. N - 1 :
                /\ sel[m].hit
                /\ sel[m].i >= 0 /\ sel[m].j >= 0 /\ sel[m].i + sel[m].j <= P
           /\ \A m1, m2 \in 0 .. N - 1 :
                m1 # m2 => <<sel[m1].i, sel[m1].j>> # <<sel[m2].i, sel[m2].j>>
           /\ \A i \in 0 .. P : \A j \in 0 .. P - i :
                \E m \in 0 .. N - 1 : sel[m].i = i /\ sel[m].j = j

C6_Witness ==
  /\ Done("eval_dubiner_basis_2d") /\ ret.st = "ok"
  /\ arg.order = 3 /\ arg.mode = 9
  /\ ret.sel.hit /\ ret.sel.i = 0 /\ ret.sel.j = 3 /\ ret.sel.n = 10

\* C7: for every valid scheme/order combination (DG at any order >= 0; SD and
\* HU at order >= 1; CPlus at orders 2..5) with eta = compute_eta(scheme, order),
\* the left correction function satisfies VCJH_1d(-1, 0, order, eta) = 1 and
\* VCJH_1d(1, 0, order, eta) = 0.
C7_LeftEndpoints ==
  Done("VCJH_1d") /\ arg.mode = 0 /\ EtaOfValidCombo(arg.order, arg.eta)
    => /\ (arg.xi = RInt(-1) => ret.val = One)
       /\ (arg.xi = One => ret.val = Zero)

C7_Witness ==
  /\ Done("VCJH_1d") /\ arg.mode = 0 /\ arg.xi = RInt(-1)
  /\ arg.order = 5 /\ compute_eta(CPLUS, 5) = Returns(arg.eta)
  /\ ret.val = One

\* C8: for both sides (0 and 1), every order >= 0 and every eta # -1,
\* dVCJH_1d(xi, side, order, eta) is the term-by-term derivative of VCJH_1d:
\* the linear combination VCJH_1d applies to the Legendre values of the orders
\* order-1, order, order+1, applied to their derivatives.
C8_DerivativeTermByTerm ==
  Done("dVCJH_1d") /\ arg.mode \in {0, 1} /\ arg.eta # RInt(-1)
    => ret.val = VCJH_comb(arg.mode, arg.order, arg.eta,
                           dLegendre(arg.xi, arg.order - 1),
                           dLegendre(arg.xi, arg.order),
                           dLegendre(arg.xi, arg.order + 1))

\* C9: compute_eta(scheme, 0) ends in the fatal error for every scheme other
\* than DG (SD, HU, CPlus and any unknown tag) and returns no eta;
\* compute_eta(DG, 0) is not an error.
C9_OrderZeroOnlyDG ==
  Done("compute_eta") /\ arg.order = 0
    => IF arg.vcjh_scheme = DG
         THEN ret.st = "ok"
         ELSE ret = FatalError("ERROR: P=0 only compatible with DG. Set VCJH scheme type to 0!")

C9_Witness ==
  /\ Done("compute_eta") /\ arg.order = 0 /\ arg.vcjh_scheme = SD
  /\ ret.st = "fatal"

\* C10: compute_eta(CPlus, order) returns an eta only for order in {2,3,4,5};
\* for every other integer order (negative orders and orders above 5 included)
\* it ends in a fatal error, and a scheme tag outside {DG, SD, HU, CPlus} is
\* always a fatal error.
C10_CPlusOnlyTabulated ==
  Done("compute_eta")
    => /\ (arg.vcjh_scheme = CPLUS => (ret.st = "ok" <=> arg.order \in {2, 3, 4, 5}))
       /\ (arg.vcjh_scheme = CPLUS /\ arg.order \notin {2, 3, 4, 5} => ret.st = "fatal")
       /\ (arg.vcjh_scheme \notin {DG, SD, HU, CPLUS} => ret.st = "fatal")

C10_Witness ==
  /\ Done("compute_eta") /\ arg.vcjh_scheme = CPLUS /\ arg.order = 6
  /\ ret = FatalError("C_plus scheme not implemented for this order")

-----------------------------------------------------------------------------
(* Reference mathematics for the properties below: polynomials in one       *)
(* variable as sequences of rational coefficients, p[k] the coefficient of  *)
(* the power k-1.                                                            *)

\* the sequence <<F(k), ..., F(n)>>, built element by element
RECURSIVE Tabulate(_, _, _)
Tabulate(F(_), k, n) == IF k > n THEN <<>> ELSE <<F(k)>> \o Tabulate(F, k + 1, n)

PolyCoef(p, k) == IF k <= Len(p) THEN p[k] ELSE Zero

\* the arithmetic of the reference side, every operand evaluated once: the
\* greatest common divisor, the sum and the product of two rationals
RECURSIVE QGCD(_, _)
QGCD(a, b) == IF b = 0 THEN a ELSE Strict2(QGCD, b, a % b)

QAdd(a, b) ==
  LET G(x, y) ==
        LET H(g) ==
              LET K(n, d) ==
                    LET N(h) == <<n \div h, d \div h>>
                    IN  Strict(N, QGCD(Abs(n), d))
              IN  Strict2(K, x[1] * (y[2] \div g) + y[1] * (x[2] \div g),
                             (x[2] \div g) * y[2])
        IN  Strict(H, QGCD(x[2], y[2]))
  IN  Strict2(G, a, b)

QMul(a, b) ==
  LET G(x, y) ==
        LET H(g1, g2) == <<(x[1] \div g1) * (y[1] \div g2),
                           (x[2] \div g2) * (y[2] \div g1)>>
        IN  Strict2(H, QGCD(Abs(x[1]), y[2]), QGCD(Abs(y[1]), x[2]))
  IN  Strict2(G, a, b)

PolyAdd(p, q) ==
  LET G(a, b) == LET F(k) == QAdd(PolyCoef(a, k), PolyCoef(b, k))
                 IN  Tabulate(F, 1, Max(Len(a), Len(b)))
  IN  Strict2(G, p, q)

PolyScale(c, p) ==
  LET G(a, b) == LET F(k) == QMul(a, b[k])
                 IN  Tabulate(F, 1, Len(b))
  IN  Strict2(G, c, p)

PolyTimesX(p) == <<Zero>> \o p

PolyDeriv(p) ==
  LET G(a) == LET F(k) == QMul(RInt(k), a[k + 1])
              IN  Tabulate(F, 1, Len(a) - 1)
  IN  Strict(G, p)

RECURSIVE PolyEvalFrom(_, _, _)
PolyEvalFrom(p, x, k) ==
  IF k > Len(p) THEN Zero ELSE QAdd(p[k], QMul(x, PolyEvalFrom(p, x, k + 1)))

PolyEval(p, x) ==
  LET G(a, b) == PolyEvalFrom(a, b, 1)
  IN  Strict2(G, p, x)

\* the Legendre polynomial of degree n >= 0 (Bonnet's recursion on coefficients)
RECURSIVE LegendrePoly(_)
LegendrePoly(n) ==
  IF n = 0 THEN <<One>>
  ELSE IF n = 1 THEN <<Zero, One>>
  ELSE PolyScale(RNorm(1, n),
                 PolyAdd(PolyScale(RInt(2 * n - 1), PolyTimesX(LegendrePoly(n - 1))),
                         PolyScale(RInt(-(n - 1)), LegendrePoly(n - 2))))

\* the Lagrange polynomial of node m (from 0) of the node sequence X:
\* the product over k # m, k >= from, of (x - X[k]) / (X[m] - X[k])
RECURSIVE LagrangePolyFrom(_, _, _)
LagrangePolyFrom(X, m, from) ==
  IF from > Len(X) THEN <<One>>
  ELSE IF from = m + 1 THEN LagrangePolyFrom(X, m, from + 1)
  ELSE LET G(rest) == PolyScale(RDiv(One, RSub(X[m + 1], X[from])),
                                PolyAdd(PolyTimesX(rest), PolyScale(RNeg(X[from]), rest)))
       IN  Strict(G, LagrangePolyFrom(X, m, from + 1))

LagrangePoly(X, m) ==
  LET G(a) == LagrangePolyFrom(a, m, 1)
  IN  Strict(G, X)

\* (n)! as a product
RECURSIVE Fact(_)
Fact(n) == IF n = 0 THEN 1 ELSE n * Fact(n - 1)

\* the pair of rank m when the pairs of {0..P} x {0..P} are ordered by total
\* degree i+j and, within one degree, by j
SquareRank(i, j, P) ==
  Cardinality({q \in (0 .. P) \X (0 .. P) :
                 q[1] + q[2] < i + j \/ (q[1] + q[2] = i + j /\ q[2] < j)})

SquarePairOfRank(m, P) ==
  CHOOSE q \in (0 .. P) \X (0 .. P) : SquareRank(q[1], q[2], P) = m

-----------------------------------------------------------------------------
(* Properties, continued *)

\* C11: every function of the core is total outside the documented fatal
\* preconditions: for every integer order argument, Legendre, eval_jacobi,
\* eval_grad_jacobi and eval_gamma terminate with a value, and the recursion
\* depth of Legendre and eval_jacobi is bounded by the order.
C11_TotalBoundedDepth ==
  pc = "done" /\ fn \in {"Legendre", "eval_jacobi", "eval_grad_jacobi", "eval_gamma"}
    => /\ ret.st = "ok"
       /\ (fn \in {"Legendre", "eval_jacobi"} => ret.depth <= Max(arg.mode, 0))

TriangleFunctions ==
  {"eval_dubiner_basis_2d", "eval_dr_dubiner_basis_2d", "eval_ds_dubiner_basis_2d"}

SquareFunctions == {"Legendre2D_hierarchical", "exponential_filter"}

\* C12: within one family the mode -> (i,j) mapping is the same in every
\* function: for every order and every in-range mode the three Dubiner
\* functions select the same pair, and Legendre2D_hierarchical and
\* exponential_filter select the same pair.
C12_SameMappingWithinFamily ==
  /\ pc = "done" /\ fn \in TriangleFunctions /\ ret.st = "ok"
       /\ arg.mode \in 0 .. TriangleDof(arg.order) - 1
       => LET b == FoundOf(Dubiner_sweep(arg.mode, arg.order, 0, SweepStart))
              dr == FoundOf(DrDubiner_sweep(arg.mode, arg.order, 0, SweepStart))
              ds == FoundOf(DsDubiner_sweep(arg.mode, arg.order, 0, SweepStart))
          IN  b = dr /\ dr = ds /\ FoundOf(ret.sel) = b
  /\ pc = "done" /\ fn \in SquareFunctions /\ ret.st = "ok"
       /\ arg.mode \in 0 .. SquareDof(arg.order) - 1
       => LET l == FoundOf(L2D_sweep(arg.mode, arg.order, 0, SweepStart))
              f == FoundOf(Filter_sweep(arg.mode, arg.order, 0, SweepStart))
          IN  l = f /\ FoundOf(ret.sel) = l

C12_Witness ==
  /\ Done("exponential_filter") /\ ret.st = "ok"
  /\ arg.order = 2 /\ arg.mode = 8
  /\ FoundOf(ret.sel) = Found(2, 2)
  /\ FoundOf(L2D_sweep(8, 2, 0, SweepStart)) = Found(2, 2)

\* C13: the square and triangle families share one mode ordering: for every
\* order P >= 0 and every mode m < (P+1)(P+2)/2, the pair the square sweep
\* (Legendre2D_hierarchical, exponential_filter) assigns to m equals the pair
\* the triangle sweep (eval_dubiner_basis_2d) assigns to m.
C13_SquareAndTriangleAgree ==
  pc = "done" /\ fn \in SquareFunctions \cup {"eval_dubiner_basis_2d"} /\ ret.st = "ok"
    /\ arg.mode \in 0 .. TriangleDof(arg.order) - 1
    => LET l == FoundOf(L2D_sweep(arg.mode, arg.order, 0, SweepStart))
           f == FoundOf(Filter_sweep(arg.mode, arg.order, 0, SweepStart))
           t == FoundOf(Dubiner_sweep(arg.mode, arg.order, 0, SweepStart))
       IN  t.hit /\ l = t /\ f = t /\ FoundOf(ret.sel) = t

C13_Witness ==
  /\ Done("Legendre2D_hierarchical") /\ ret.st = "ok"
  /\ arg.order = 3 /\ arg.mode = 9
  /\ FoundOf(ret.sel) = Found(0, 3)
  /\ FoundOf(Dubiner_sweep(9, 3, 0, SweepStart)) = Found(0, 3)

PairwiseDistinct(X) == \A a, b \in 1 .. Len(X) : a # b => X[a] # X[b]

\* C14: Lagrange exactness: for every node set X of pairwise distinct
\* abscissas and every mode m < |X|, Lagrange(X, X[m], m) = 1 and
\* Lagrange(X, X[k], m) = 0 for every k # m (1 for a single node).
C14_LagrangeExactness ==
  Done("Lagrange") /\ PairwiseDistinct(arg.x_lag) /\ arg.mode < Len(arg.x_lag)
    => /\ \A k \in 0 .. Len(arg.x_lag) - 1 :
            arg.y = At(arg.x_lag, k) => ret.val = IF k = arg.mode THEN One ELSE Zero
       /\ (Len(arg.x_lag) = 1 => ret.val = One)

C14_Witness ==
  /\ Done("Lagrange")
  /\ arg.x_lag = <<RInt(-1), Zero, RNorm(1, 2), One>> /\ arg.mode = 2
  /\ arg.y = RNorm(1, 2) /\ ret.val = One

\* C15: Legendre known values: for every n >= 0, Legendre(1, n) = 1 and
\* Legendre(-1, n) = (-1)^n; for every r, Legendre(r, 0) = 1 and
\* Legendre(r, 1) = r; for every n < 0, Legendre(r, n) = 0.
C15_LegendreKnownValues ==
  Done("Legendre")
    => /\ ret.st = "ok"
       /\ (arg.mode >= 0 /\ arg.r = One => ret.val = One)
       /\ (arg.mode >= 0 /\ arg.r = RInt(-1) => ret.val = PowMinusOne(arg.mode))
       /\ (arg.mode = 0 => ret.val = One)
       /\ (arg.mode = 1 => ret.val = arg.r)
       /\ (arg.mode < 0 => ret.val = Zero)

C15_Witness ==
  /\ Done("Legendre") /\ arg.r = RInt(-1) /\ arg.mode = 7
  /\ ret.st = "ok" /\ ret.val = RInt(-1)

\* C16: dLegendre(r, n) is the derivative of the degree-n Legendre polynomial
\* on the whole closed interval: for n = 0..6 it equals the exact derivative
\* at every -1 <= r <= 1, and at the endpoints it returns
\* (-1)^(n-1)*n(n+1)/2 at r = -1 and n(n+1)/2 at r = 1.
C16_dLegendreIsDerivative ==
  Done("dLegendre") /\ arg.mode \in 0 .. 6
    /\ ~RLess(arg.r, RInt(-1)) /\ ~RLess(One, arg.r)
    => /\ ret.val = PolyEval(PolyDeriv(LegendrePoly(arg.mode)), arg.r)
       /\ (arg.r = RInt(-1)
             => ret.val = RMul(PowMinusOne(arg.mode - 1),
                               RNorm(arg.mode * (arg.mode + 1), 2)))
       /\ (arg.r = One => ret.val = RNorm(arg.mode * (arg.mode + 1), 2))

C16_Witness ==
  /\ Done("dLegendre") /\ arg.mode = 6 /\ arg.r = RInt(-1)
  /\ ret.val = RInt(-21)

\* C17: for every node set of pairwise distinct abscissas, every in-range mode
\* and every point y, dLagrange returns the first derivative and ddLagrange
\* the second derivative of the polynomial y -> Lagrange(nodes, y, mode);
\* dLagrange is 0 for a single node and ddLagrange is 0 for one or two nodes.
C17_LagrangeDerivatives ==
  /\ Done("dLagrange") /\ PairwiseDistinct(arg.x_lag) /\ arg.mode < Len(arg.x_lag)
       => /\ ret.val = PolyEval(PolyDeriv(LagrangePoly(arg.x_lag, arg.mode)), arg.y)
          /\ (Len(arg.x_lag) = 1 => ret.val = Zero)
  /\ Done("ddLagrange") /\ PairwiseDistinct(arg.x_lag) /\ arg.mode < Len(arg.x_lag)
       => /\ ret.val = PolyEval(PolyDeriv(PolyDeriv(LagrangePoly(arg.x_lag, arg.mode))),
                                arg.y)
          /\ (Len(arg.x_lag) <= 2 => ret.val = Zero)

C17_Witness ==
  /\ Done("ddLagrange")
  /\ arg.x_lag = <<RInt(-1), Zero, RNorm(1, 2), One>> /\ arg.mode = 1
  /\ arg.y = RNorm(1, 3)
  /\ ret.val # Zero
  /\ ret.val = PolyEval(PolyDeriv(PolyDeriv(LagrangePoly(arg.x_lag, arg.mode))), arg.y)

\* C18: eval_gamma(n) = (n-1)! for every integer n in 1..10
\* (eval_gamma(1) = 1, eval_gamma(2) = 1, eval_gamma(5) = 24).
C18_GammaIsFactorial ==
  Done("eval_gamma") /\ arg.n \in 1 .. 10
    => /\ ret.st = "ok" /\ ret.gamma_val = Fact(arg.n - 1)
       /\ (arg.n = 1 => ret.gamma_val = 1)
       /\ (arg.n = 2 => ret.gamma_val = 1)
       /\ (arg.n = 5 => ret.gamma_val = 24)

C18_Witness ==
  /\ Done("eval_gamma") /\ arg.n = 10 /\ ret.gamma_val = 362880

\* C19: compute_eta(DG, order) = 0 for every order >= 0,
\* compute_eta(SD, order) = order/(order+1) and
\* compute_eta(HU, order) = (order+1)/order for every order >= 1.
C19_EtaClosedForms ==
  Done("compute_eta")
    => /\ (arg.vcjh_scheme = DG /\ arg.order >= 0 => ret = Returns(Zero))
       /\ (arg.vcjh_scheme = SD /\ arg.order >= 1
             => ret = Returns(RNorm(arg.order, arg.order + 1)))
       /\ (arg.vcjh_scheme = HU /\ arg.order >= 1
             => ret = Returns(RNorm(arg.order + 1, arg.order)))

C19_Witness ==
  /\ Done("compute_eta") /\ arg.vcjh_scheme = HU /\ arg.order = 6
  /\ ret = Returns(<<7, 6>>)

\* sigma of a <= sigma of b, for two results of exponential_filter: sigma is 0
\* (field zero) or exp(-damp), which falls as damp grows
SigmaLeq(a, b) == a.zero \/ (~b.zero /\ ~RLess(a.damp, b.damp))

\* C20: exponential_filter damps monotonically in total degree: for a fixed
\* order P and exponent > 0 the value returned for an in-range mode is
\* exp(-((i+j)/(P+1)^2)^exponent) for that mode's pair (i,j), so it is 1 at
\* mode 0 and, for any two in-range modes m1 < m2, filter(m2) <= filter(m1).
C20_FilterMonotone ==
  Done("exponential_filter") /\ ret.st = "ok"
    /\ arg.mode \in 0 .. SquareDof(arg.order) - 1
    => LET q == SquarePairOfRank(arg.mode, arg.order)
       IN  /\ ~ret.zero
           /\ ret.damp = RPow(RNorm(q[1] + q[2], SquareDof(arg.order)), arg.exponent)
           /\ (arg.mode = 0 => ret.damp = Zero)
           /\ \A m1 \in 0 .. arg.mode - 1 :
                SigmaLeq(ret, exponential_filter(m1, arg.order, arg.exponent))

C23_NegativeModeIsFatal ==
  pc = "done" /\ fn \in ModalFunctions /\ arg.mode < 0
    => ret.st = "fatal" /\ ret.msg \in InvalidModeMessages

\* C24: the singularity guard of rs_to_ab prevents every division by zero: for
\* every input point (r,s), the quotient (1+r)/(1-s) is evaluated only when
\* 1-s # 0.
C24_NoDivisionByZero ==
  Done("rs_to_ab") /\ ~rs_to_ab_guard(arg.rs)
    => rs_to_ab_divisor(arg.rs) # Zero

\* C29: outside the closed interval the derivative is not computed: for every
\* order n and every r with r < -1 or r > 1, dLegendre(r, n) returns 0 and
\* signals no error.
C29_dLegendreOutsideIsZero ==
  Done("dLegendre") /\ (RLess(arg.r, RInt(-1)) \/ RLess(One, arg.r))
    => ret = Returns(Zero)

C29_Witness ==
  /\ Done("dLegendre") /\ arg.r = RNorm(-3, 2) /\ arg.mode = 3
  /\ ret = Returns(Zero)

\* C30: the value and derivative functions treat the side argument
\* differently: for a side other than 0 and 1, VCJH_1d returns the right
\* (side 1) correction function while dVCJH_1d returns 0; for side 0 and
\* side 1 both evaluate the same side.
C30_SideArgument ==
  /\ Done("VCJH_1d")
       => /\ (arg.mode \notin {0, 1}
                => ret.val = VCJH_1d(arg.xi, 1, arg.order, arg.eta))
          /\ (arg.mode = 0
                => ret.val = VCJH_left(arg.order, arg.eta,
                                       Legendre(arg.xi, arg.order - 1),
                                       Legendre(arg.xi, arg.order),
                                       Legendre(arg.xi, arg.order + 1)))
          /\ (arg.mode = 1
                => ret.val = VCJH_right(arg.order, arg.eta,
                                        Legendre(arg.xi, arg.order - 1),
                                        Legendre(arg.xi, arg.order),
                                        Legendre(arg.xi, arg.order + 1)))
  /\ Done("dVCJH_1d")
       => /\ (arg.mode \notin {0, 1} => ret.val = Zero)
          /\ (arg.mode = 0 => ret.val = dVCJH_left(arg.xi, arg.order, arg.eta))
          /\ (arg.mode = 1 => ret.val = dVCJH_right(arg.xi, arg.order, arg.eta))

C30_Witness ==
  /\ Done("dVCJH_1d") /\ arg.mode = 2 /\ arg.order = 2 /\ arg.xi = Zero
  /\ arg.eta = RNorm(2, 3)
  /\ ret.val = Zero
  /\ dVCJH_right(arg.xi, arg.order, arg.eta) # Zero

-----------------------------------------------------------------------------
(* Reference mathematics for C22: the Jacobi polynomial P_n^(alpha,beta) as  *)
(* the sum over s of C(n+alpha, n-s) C(n+beta, s) ((x-1)/2)^s ((x+1)/2)^(n-s) *)
(* and the weighted integrals of products, coefficient by coefficient.       *)

RECURSIVE PolyMulSum(_, _, _, _)
PolyMulSum(p, q, k, a) ==
  IF a > Len(p) THEN Zero
  ELSE QAdd(IF k - a + 1 \in 1 .. Len(q) THEN QMul(p[a], q[k - a + 1]) ELSE Zero,
            PolyMulSum(p, q, k, a + 1))

PolyMul(p, q) ==
  LET G(a, b) == LET F(k) == PolyMulSum(a, b, k, 1)
                 IN  Tabulate(F, 1, Len(a) + Len(b) - 1)
  IN  Strict2(G, p, q)

RECURSIVE PolyPow(_, _)
PolyPow(p, e) == IF e = 0 THEN <<One>> ELSE PolyMul(p, PolyPow(p, e - 1))

\* the integral over [-1,1] of p: the power k-1 gives 2/k when k-1 is even
RECURSIVE PolyIntegralFrom(_, _)
PolyIntegralFrom(p, k) ==
  IF k > Len(p) THEN Zero
  ELSE QAdd(IF k % 2 = 1 THEN QMul(p[k], RNorm(2, k)) ELSE Zero,
            PolyIntegralFrom(p, k + 1))

PolyIntegral(p) ==
  LET G(a) == PolyIntegralFrom(a, 1)
  IN  Strict(G, p)

Binomial(n, k) == Fact(n) \div (Fact(k) * Fact(n - k))

\* the terms s.. of the sum
RECURSIVE JacobiPolyFrom(_, _, _, _)
JacobiPolyFrom(alpha, beta, n, s) ==
  IF s > n THEN <<Zero>>
  ELSE PolyAdd(PolyScale(RInt(Binomial(n + alpha, n - s) * Binomial(n + beta, s)),
                         PolyMul(PolyPow(<<RNorm(-1, 2), Half>>, s),
                                 PolyPow(<<Half, Half>>, n - s))),
               JacobiPolyFrom(alpha, beta, n, s + 1))

JacobiPoly(alpha, beta, n) == JacobiPolyFrom(alpha, beta, n, 0)

\* the weighted integral of the square of P_n^(alpha,beta):
\* 2^(alpha+beta+1)/(2n+alpha+beta+1) * (n+alpha)!(n+beta)!/((n+alpha+beta)! n!)
JacobiNormSq(alpha, beta, n) ==
  QMul(RNorm(2 ^ (alpha + beta + 1), 2 * n + alpha + beta + 1),
       QMul(RNorm(Fact(n + alpha), Fact(n + alpha + beta)),
            RNorm(Fact(n + beta), Fact(n))))

\* the weight (1-x)^alpha (1+x)^beta
JacobiWeight(alpha, beta) ==
  PolyMul(PolyPow(<<One, RInt(-1)>>, alpha), PolyPow(<<One, One>>, beta))

\* the weighted integral of P_m^(alpha,beta) P_n^(alpha,beta)
JacobiInner(alpha, beta, m, n) ==
  PolyIntegral(PolyMul(JacobiWeight(alpha, beta),
                       PolyMul(JacobiPoly(alpha, beta, m), JacobiPoly(alpha, beta, n))))

\* the surd v is q / sqrt(h), for rationals q and h > 0: the same sign, and
\* the same square
SurdIsOverSqrt(v, q, h) ==
  LET G(x, y, z) ==
        /\ (x[1] > 0) = (y[1] > 0)
        /\ (x[1] < 0) = (y[1] < 0)
        /\ QMul(QMul(SCoef(x), SCoef(x)), QMul(RInt(x[3]), z)) = QMul(y, y)
  IN  \E x \in {v}, y \in {q}, z \in {h} : G(x, y, z)

\* C22: eval_jacobi is orthonormal: for fixed integer weights (alpha, beta) >= 0
\* and orders m, n >= 0, the integral over [-1,1] of
\* (1-x)^alpha (1+x)^beta eval_jacobi(x,alpha,beta,m) eval_jacobi(x,alpha,beta,n)
\* is 1 when m = n and 0 when m # n.  eval_jacobi(r, alpha, beta, m) is the
\* Jacobi polynomial P_m^(alpha,beta)(r) over the square root of h_m, and the
\* weighted integral of P_m P_n is h_m when m = n and 0 when m # n.
C22_JacobiOrthonormal ==
  Done("eval_jacobi") /\ arg.mode >= 0
    => /\ ret.st = "ok"
       /\ SurdIsOverSqrt(ret.val,
                         PolyEval(JacobiPoly(arg.alpha, arg.beta, arg.mode), arg.r),
                         JacobiNormSq(arg.alpha, arg.beta, arg.mode))
       /\ \A n \in 0 .. MaxJacobiMode :
            JacobiInner(arg.alpha, arg.beta, arg.mode, n)
              = IF n = arg.mode THEN JacobiNormSq(arg.alpha, arg.beta, arg.mode)
                                ELSE Zero

C22_Witness ==
  /\ Done("eval_jacobi") /\ ret.st = "ok"
  /\ arg.alpha = 2 /\ arg.beta = 1 /\ arg.mode = 4 /\ arg.r = RNorm(-1, 2)
  /\ ret.val[1] # 0
  /\ JacobiInner(arg.alpha, arg.beta, arg.mode, arg.mode - 1) = Zero

-----------------------------------------------------------------------------
(* Properties of the MPI output functions *)

\* the collectives of a complete run of writeSurfaces on one rank
SurfaceCollectives ==
  <<"MPI_Barrier">> \o [b \in 1 .. arg.nBounds |-> "MPI_Allgather"]

\* C25: in an MPI run of writeSurfaces every rank executes the same sequence of
\* collectives, one MPI_Barrier and then one MPI_Allgather for each boundary,
\* whatever the number of elements it holds: a rank that returned has executed
\* that sequence, and no rank waits in an Allgather for a rank of its grid
\* that returned without entering it.
C25_SameCollectivesOnEveryRank ==
  pc = "run" /\ fn = "writeSurfaces"
    => \A r \in Ranks :
         /\ loc[r] = "returned" => collectives[r] = SurfaceCollectives
         /\ loc[r] = "in_allgather"
              => \A q \in gridComm(r) :
                   loc[q] = "returned" => Len(sendbuf[q]) >= Len(sendbuf[r])

\* C26: writeError never reads err past its end: whenever a rank writes the
\* nFields error columns, err holds at least nFields entries, for every
\* testCase writeAllError dispatches and for direct calls of writeError.
C26_ErrReadWithinBounds ==
  pc = "run" /\ fn \in {"writeAllError", "writeError"}
    => \A r \in Ranks :
         \A i \in DOMAIN errlog[r] : errlog[r][i].columns <= errlog[r][i].size

\* the rank has left the barrier of the function
PastBarrier(r) ==
  Count(collectives[r], "MPI_Barrier") > 0 /\ loc[r] # "in_barrier"

\* C27: in an MPI run of writeParaview and of writeSurfaces no rank opens a
\* .vtu file of the per-iteration sub-directory before the directory exists:
\* no open found the directory missing, and the directory exists as soon as
\* any rank has left the barrier.
C27_DirectoryBeforeOpen ==
  pc = "run" /\ fn \in {"writeParaview", "writeSurfaces"}
    => /\ fs.early = {}
       /\ fs.vtu # {} => fs.dir
       /\ \A r \in Ranks : PastBarrier(r) => fs.dir

\* rank 1 has opened its file while the master rank is still in the barrier
C27_Witness ==
  /\ pc = "run" /\ fn = "writeParaview"
  /\ arg.nproc = 2
  /\ loc[0] = "in_barrier"
  /\ vtuName(1) \in fs.vtu
  /\ fs.dir

\* the ranks of grid g that hold at least one element
RanksWithElements(g) == {q \in Ranks : gridID(q) = g /\ arg.nEles[q] >= 1}

\* C28: in an MPI run of writeParaview the .pvtu of a grid lists a Piece for
\* rank p exactly when rank p holds at least one element, and a rank writes
\* its .vtu exactly when it holds at least one element; so at the end the
\* Pieces named are the files written.
C28_PiecesAreWrittenFiles ==
  pc = "run" /\ fn = "writeParaview"
    => /\ \A f \in fs.pvtu :
            \E g \in {gridID(r) : r \in Ranks} :
              /\ f.name = pvtuName(g)
              /\ f.pieces = {vtuName(q) : q \in RanksWithElements(g)}
       /\ \A r \in Ranks :
            loc[r] = "returned" => (vtuName(r) \in fs.vtu <=> arg.nEles[r] >= 1)
       /\ (\A r \in Ranks : loc[r] = "returned")
            => /\ {f.name : f \in fs.pvtu} = {pvtuName(gridID(r)) : r \in Ranks}
               /\ UNION {f.pieces : f \in fs.pvtu} = fs.vtu

\* two ranks of one grid, the second without elements: one Piece, one file
C28_Witness ==
  /\ pc = "run" /\ fn = "writeParaview"
  /\ arg.nproc = 2 /\ ~arg.overset
  /\ arg.nEles[0] = 1 /\ arg.nEles[1] = 0
  /\ \A r \in Ranks : loc[r] = "returned"
  /\ fs.vtu = {vtuName(0)}
  /\ fs.pvtu = {[name |-> pvtuName(0), pieces |-> {vtuName(0)}]}

=============================================================================
